---- MODULE Spec2Model ----
(***************************************************************************)
(* A model of the terminal pacman game of src/src/main.rs: the maze        *)
(* generator, the breadth-first path field, the ghost controller, the      *)
(* bonus spawner and the per-tick protocol of `tick`.                      *)
(*                                                                         *)
(* Conventions.  Pos is a record [x, y]; a Vec<Vec<Tile>> is a function    *)
(* grid[y][x]; Option<T> is the empty sequence (None) or a one-element     *)
(* sequence (Some); the ghost vectors are functions over 0..len-1, as the  *)
(* code indexes them.  The random source is a stream of raw values; every  *)
(* draw of the code advances it by one value.                              *)
(***************************************************************************)
EXTENDS Integers, Sequences, FiniteSets, TLC

VARIABLES
    game,    \* the Game record (struct Game), or the dummy NoGame
    rng,     \* the state of the random source passed to new_game and tick
    pc,      \* the position inside `tick` (or "idle" between two ticks)
    ticks,   \* the number of tick calls issued so far
    input,   \* the player's plan and the ticks that departed from it so far
    probe    \* input and output of the pure functions exercised on their own

vars == <<game, rng, pc, ticks, input, probe>>

\* ------------------------------------------------------------------ bounds

\* Half-resolution cells of the level played: width = 2 * CellsW + 1.
CellsW == 6
CellsH == 4
\* Tick calls issued in one behaviour.
MaxTicks == 40
\* How many ticks of a run may depart from the player's plan.
MaxTurns == 1

\* --------------------------------------------------------------- constants

PEN_W == 9
PEN_H == 5
GHOST_RELEASE_INTERVAL == 90
BONUS_MIN_TICKS == 600
BONUS_MAX_TICKS == 1100
BONUS_LIFETIME_TICKS == 260
BONUS_SCORE == 200
BONUS_POWER_BOOST == 40
POWER_TICKS == 90
\* The two probabilities, in hundredths (0.45 and 0.08 in the source).
BRAID_CHANCE == 45
EXTRA_OPENINGS == 8
GHOST_MOVE_INTERVAL == 2

GridW == 2 * CellsW + 1
GridH == 2 * CellsH + 1

\* ---------------------------------------------------------- grid primitives

Tile == {"Wall", "Empty", "Pellet", "Power", "Gate"}

Dirs == <<"Up", "Down", "Left", "Right">>

Dir == {Dirs[i] : i \in 1..4}

None == <<>>

Some(v) == <<v>>

Pos(x, y) == [x |-> x, y |-> y]

Min(a, b) == IF a < b THEN a ELSE b

Max(a, b) == IF a > b THEN a ELSE b

\* A variant of saturating_sub that counts up; C6 must reject it.
saturating_sub_up(a, b) == a + b

\* usize subtraction that stops at 0.
saturating_sub(a, b) == IF a > b THEN a - b ELSE 0

delta(dir) ==
    CASE dir = "Up" -> <<0, -1>>
      [] dir = "Down" -> <<0, 1>>
      [] dir = "Left" -> <<-1, 0>>
      [] dir = "Right" -> <<1, 0>>

step(pos, dir) == Pos(pos.x + delta(dir)[1], pos.y + delta(dir)[2])

\* A variant of can_move_player that lets the player step onto the Gate; C23
\* must reject it.
can_move_player_through_gate(grid, width, height, pos, dir) ==
    LET nx == pos.x + delta(dir)[1]
        ny == pos.y + delta(dir)[2]
    IN  IF nx < 0 \/ ny < 0 THEN FALSE
        ELSE IF nx >= width \/ ny >= height THEN FALSE
        ELSE grid[ny][nx] # "Wall"

can_move_player(grid, width, height, pos, dir) ==
    LET nx == pos.x + delta(dir)[1]
        ny == pos.y + delta(dir)[2]
    IN  IF nx < 0 \/ ny < 0 THEN FALSE
        ELSE IF nx >= width \/ ny >= height THEN FALSE
        ELSE grid[ny][nx] \notin {"Wall", "Gate"}

\* A variant of can_move_ghost without the Wall test; C21 must reject it.
can_move_ghost_through_walls(grid, width, height, pos, dir, gate_open) ==
    LET nx == pos.x + delta(dir)[1]
        ny == pos.y + delta(dir)[2]
    IN  IF nx < 0 \/ ny < 0 THEN FALSE
        ELSE IF nx >= width \/ ny >= height THEN FALSE
        ELSE IF grid[ny][nx] = "Gate" THEN gate_open
        ELSE TRUE

can_move_ghost(grid, width, height, pos, dir, gate_open) ==
    LET nx == pos.x + delta(dir)[1]
        ny == pos.y + delta(dir)[2]
    IN  IF nx < 0 \/ ny < 0 THEN FALSE
        ELSE IF nx >= width \/ ny >= height THEN FALSE
        ELSE IF grid[ny][nx] = "Wall" THEN FALSE
        ELSE IF grid[ny][nx] = "Gate" THEN gate_open
        ELSE TRUE

SetTile(grid, x, y, t) == [grid EXCEPT ![y][x] = t]

\* The positions of a width x height table in row-major order, as the loops
\* `for y in .. { for x in .. }` visit them.
RowMajor(pos, width) == pos.y * width + pos.x

\* The members of a set of positions as a sequence in row-major order.
RECURSIVE InOrder(_, _)
InOrder(S, width) ==
    IF S = {} THEN <<>>
    ELSE LET p == CHOOSE q \in S : \A r \in S : RowMajor(q, width) <= RowMajor(r, width)
         IN  <<p>> \o InOrder(S \ {p}, width)

\* ------------------------------------------------------------ random source

\* One raw value of the stream after state s.
RngNext(s) == (s * 75 + 74) % 65537

\* rng.gen_range(lo..=hi): the value drawn (the state becomes RngNext(s)).
gen_range(s, lo, hi) == lo + (RngNext(s) % (hi - lo + 1))

\* rng.gen::<f32>() < chance, with chance in hundredths.
gen_below(s, chance) == (RngNext(s) % 100) < chance

\* A variant of choose that mixes the number of tick calls the process has
\* served so far into the draw; C17 must reject it.
choose_counting(s, seq) == seq[1 + ((RngNext(s) + ticks) % Len(seq))]

\* slice.choose(rng) on a non-empty sequence: one draw.
choose(s, seq) == seq[1 + (RngNext(s) % Len(seq))]

\* slice.shuffle(rng): for i in (1..len).rev() { swap(i, gen_range(0..=i)) }.
\* st holds the 1-based sequence, the random state and i + 1, the number of
\* elements still to place.
RECURSIVE shuffle_from(_)
shuffle_from(st) ==
    IF st.i < 2 THEN st
    ELSE LET j == 1 + (RngNext(st.rng) % st.i)
         IN  shuffle_from([seq |-> [st.seq EXCEPT ![st.i] = st.seq[j], ![j] = st.seq[st.i]],
                           rng |-> RngNext(st.rng), i |-> st.i - 1])

shuffle(s, seq) == shuffle_from([seq |-> seq, rng |-> s, i |-> Len(seq)])

\* ----------------------------------------------------------- maze generator

\* A variant of carve_cell that is off by one tile; C9 must reject it.
carve_cell_shifted(grid, cx, cy) == SetTile(grid, cx * 2, cy * 2, "Empty")

carve_cell(grid, cx, cy) == SetTile(grid, cx * 2 + 1, cy * 2 + 1, "Empty")

carve_between(grid, cx, cy, nx, ny) ==
    LET gx == cx * 2 + 1
        gy == cy * 2 + 1
        ngx == nx * 2 + 1
        ngy == ny * 2 + 1
    IN  SetTile(grid, (gx + ngx) \div 2, (gy + ngy) \div 2, "Empty")

\* The cells add_frontier pushes, in its order: up, down, left, right.
add_frontier(cx, cy, cells_w, cells_h, in_maze, frontier) ==
    frontier
      \o (IF cy > 0 /\ <<cx, cy - 1>> \notin in_maze THEN <<(<<cx, cy - 1>>)>> ELSE <<>>)
      \o (IF cy + 1 < cells_h /\ <<cx, cy + 1>> \notin in_maze THEN <<(<<cx, cy + 1>>)>> ELSE <<>>)
      \o (IF cx > 0 /\ <<cx - 1, cy>> \notin in_maze THEN <<(<<cx - 1, cy>>)>> ELSE <<>>)
      \o (IF cx + 1 < cells_w /\ <<cx + 1, cy>> \notin in_maze THEN <<(<<cx + 1, cy>>)>> ELSE <<>>)

\* Vec::swap_remove(idx) with a 0-based idx: the last element takes its place.
swap_remove(seq, idx) ==
    LET n == Len(seq)
    IN  IF idx + 1 = n THEN SubSeq(seq, 1, n - 1)
        ELSE SubSeq([seq EXCEPT ![idx + 1] = seq[n]], 1, n - 1)

\* The in-tree neighbours of a frontier cell, in the order of the code.
tree_neighbors(cx, cy, cells_w, cells_h, in_maze) ==
    (IF cy > 0 /\ <<cx, cy - 1>> \in in_maze THEN <<(<<cx, cy - 1>>)>> ELSE <<>>)
      \o (IF cy + 1 < cells_h /\ <<cx, cy + 1>> \in in_maze THEN <<(<<cx, cy + 1>>)>> ELSE <<>>)
      \o (IF cx > 0 /\ <<cx - 1, cy>> \in in_maze THEN <<(<<cx - 1, cy>>)>> ELSE <<>>)
      \o (IF cx + 1 < cells_w /\ <<cx + 1, cy>> \in in_maze THEN <<(<<cx + 1, cy>>)>> ELSE <<>>)

\* A variant of frontier_step without the test for a cell that is already in
\* the tree: a stale frontier entry is carved again; C32 must reject it.
frontier_step_carves_stale(st, idx, pick, cells_w, cells_h) ==
    LET cell == st.frontier[idx + 1]
        rest == swap_remove(st.frontier, idx)
        neighbors == tree_neighbors(cell[1], cell[2], cells_w, cells_h, st.in_maze)
        in2 == st.in_maze \cup {cell}
    IN  IF neighbors = <<>> THEN [st EXCEPT !.frontier = rest]
        ELSE [grid |-> carve_cell(carve_between(st.grid, cell[1], cell[2],
                                                neighbors[pick + 1][1],
                                                neighbors[pick + 1][2]),
                                  cell[1], cell[2]),
              in_maze |-> in2,
              frontier |-> add_frontier(cell[1], cell[2], cells_w, cells_h, in2, rest),
              carved |-> st.carved + 1]

\* One pass of the `while !frontier.is_empty()` loop of generate_maze with the
\* outcomes of its draws given: idx, the index gen_range(0..frontier.len())
\* returns, and pick, the 0-based index of the neighbour that choose returns
\* (not drawn on a pass that ends in `continue`). st holds grid, in_maze,
\* frontier and carved.
frontier_step(st, idx, pick, cells_w, cells_h) ==
    LET cell == st.frontier[idx + 1]
        cx == cell[1]
        cy == cell[2]
        rest == swap_remove(st.frontier, idx)
        neighbors == tree_neighbors(cx, cy, cells_w, cells_h, st.in_maze)
    IN  IF cell \in st.in_maze \/ neighbors = <<>>
        THEN [st EXCEPT !.frontier = rest]
        ELSE LET n == neighbors[pick + 1]
                 in2 == st.in_maze \cup {cell}
             IN  [grid |-> carve_cell(carve_between(st.grid, cx, cy, n[1], n[2]), cx, cy),
                  in_maze |-> in2,
                  frontier |-> add_frontier(cx, cy, cells_w, cells_h, in2, rest),
                  carved |-> st.carved + 1]

\* The `while !frontier.is_empty()` loop of generate_maze.  st holds grid,
\* in_maze (the set of cells in the tree), frontier, rng and carved (the number
\* of connecting walls carved).
RECURSIVE frontier_loop(_, _, _)
frontier_loop(st, cells_w, cells_h) ==
    IF st.frontier = <<>> THEN st
    ELSE LET idx == gen_range(st.rng, 0, Len(st.frontier) - 1)
             r1 == RngNext(st.rng)
             cell == st.frontier[idx + 1]
             cx == cell[1]
             cy == cell[2]
             rest == swap_remove(st.frontier, idx)
             neighbors == tree_neighbors(cx, cy, cells_w, cells_h, st.in_maze)
         IN  IF cell \in st.in_maze \/ neighbors = <<>>
             THEN frontier_loop([st EXCEPT !.frontier = rest, !.rng = r1], cells_w, cells_h)
             ELSE LET n == choose(r1, neighbors)
                      r2 == RngNext(r1)
                      in2 == st.in_maze \cup {cell}
                      g2 == carve_cell(carve_between(st.grid, cx, cy, n[1], n[2]), cx, cy)
                  IN  frontier_loop(
                          [grid |-> g2, in_maze |-> in2,
                           frontier |-> add_frontier(cx, cy, cells_w, cells_h, in2, rest),
                           rng |-> r2, carved |-> st.carved + 1],
                          cells_w, cells_h)

is_open_between(grid, cx, cy, nx, ny) ==
    LET gx == cx * 2 + 1
        gy == cy * 2 + 1
        ngx == nx * 2 + 1
        ngy == ny * 2 + 1
    IN  grid[(gy + ngy) \div 2][(gx + ngx) \div 2] # "Wall"

cell_in_range(cx, cy, dir, cells_w, cells_h) ==
    LET nx == cx + delta(dir)[1]
        ny == cy + delta(dir)[2]
    IN  ~(nx < 0 \/ ny < 0) /\ ~(nx >= cells_w \/ ny >= cells_h)

\* Both keep the order of the code's loop: Up, Down, Left, Right.
cell_open_neighbors(grid, cx, cy, cells_w, cells_h) ==
    SelectSeq(Dirs, LAMBDA dir :
        /\ cell_in_range(cx, cy, dir, cells_w, cells_h)
        /\ is_open_between(grid, cx, cy, cx + delta(dir)[1], cy + delta(dir)[2]))

cell_closed_neighbors(grid, cx, cy, cells_w, cells_h) ==
    SelectSeq(Dirs, LAMBDA dir :
        /\ cell_in_range(cx, cy, dir, cells_w, cells_h)
        /\ ~is_open_between(grid, cx, cy, cx + delta(dir)[1], cy + delta(dir)[2]))

carve_between_dir(grid, cx, cy, dir) ==
    LET nx == cx + delta(dir)[1]
        ny == cy + delta(dir)[2]
    IN  carve_cell(carve_between(grid, cx, cy, nx, ny), nx, ny)

\* One cell of braid_maze: the body of its two loops.  The second draw of a
\* float happens only when the first branch was not taken (`else if`), and the
\* first only when the cell is a dead end with a closed neighbour (`&&`).
braid_cell(st, cx, cy, cells_w, cells_h) ==
    LET open == cell_open_neighbors(st.grid, cx, cy, cells_w, cells_h)
        closed == cell_closed_neighbors(st.grid, cx, cy, cells_w, cells_h)
        tried == Len(open) = 1 /\ closed # <<>>
        r1 == IF tried THEN RngNext(st.rng) ELSE st.rng
    IN  IF tried /\ gen_below(st.rng, BRAID_CHANCE)
        THEN [grid |-> carve_between_dir(st.grid, cx, cy, choose(r1, closed)),
              rng |-> RngNext(r1)]
        ELSE IF closed # <<>> /\ gen_below(r1, EXTRA_OPENINGS)
        THEN [grid |-> carve_between_dir(st.grid, cx, cy, choose(RngNext(r1), closed)),
              rng |-> RngNext(RngNext(r1))]
        ELSE IF closed # <<>> THEN [grid |-> st.grid, rng |-> RngNext(r1)]
        ELSE [grid |-> st.grid, rng |-> r1]

\* braid_maze: the cells in the order cy, then cx; st.k counts them.
RECURSIVE braid_from(_, _, _)
braid_from(st, cells_w, cells_h) ==
    IF st.k >= cells_w * cells_h THEN st
    ELSE LET done == braid_cell(st, st.k % cells_w, st.k \div cells_w, cells_w, cells_h)
         IN  braid_from([grid |-> done.grid, rng |-> done.rng, k |-> st.k + 1],
                        cells_w, cells_h)

braid_maze(grid, cells_w, cells_h, s) ==
    braid_from([grid |-> grid, rng |-> s, k |-> 0], cells_w, cells_h)

pen_bounds(width, height) ==
    LET w0 == Min(PEN_W, saturating_sub(width, 2))
        h0 == Min(PEN_H, saturating_sub(height, 2))
        w1 == IF w0 % 2 = 0 THEN saturating_sub(w0, 1) ELSE w0
        h1 == IF h0 % 2 = 0 THEN saturating_sub(h0, 1) ELSE h0
        pen_w == Max(w1, 3)
        pen_h == Max(h1, 3)
        x0 == (width - pen_w) \div 2
        y0 == (height - pen_h) \div 2
    IN  [x0 |-> x0, y0 |-> y0, x1 |-> x0 + pen_w - 1, y1 |-> y0 + pen_h - 1]

is_in_pen(pos, width, height) ==
    LET b == pen_bounds(width, height)
    IN  pos.x >= b.x0 /\ pos.x <= b.x1 /\ pos.y >= b.y0 /\ pos.y <= b.y1

in_pen_interior(pos, pen) ==
    pos.x > pen.x0 /\ pos.x < pen.x1 /\ pos.y > pen.y0 /\ pos.y < pen.y1

is_pen_wall(pos, pen) ==
    \/ (pos.x >= pen.x0 /\ pos.x <= pen.x1 /\ (pos.y = pen.y0 \/ pos.y = pen.y1))
    \/ (pos.y >= pen.y0 /\ pos.y <= pen.y1 /\ (pos.x = pen.x0 \/ pos.x = pen.x1))

is_in_pen_bounds(pos, pen) ==
    pos.x >= pen.x0 /\ pos.x <= pen.x1 /\ pos.y >= pen.y0 /\ pos.y <= pen.y1

\* The corridor loop of carve_ghost_pen, from row y upward in column x.
RECURSIVE carve_corridor(_, _, _)
carve_corridor(grid, x, y) ==
    IF ~(y > 0) THEN grid
    ELSE IF grid[y][x] # "Wall" THEN grid
    ELSE carve_corridor(SetTile(grid, x, y, "Empty"), x, saturating_sub(y, 1))

carve_ghost_pen(grid, width, height) ==
    LET b == pen_bounds(width, height)
        ring(x, y) == y = b.y0 \/ y = b.y1 \/ x = b.x0 \/ x = b.x1
        inside(x, y) == x >= b.x0 /\ x <= b.x1 /\ y >= b.y0 /\ y <= b.y1
        g1 == [y \in DOMAIN grid |-> [x \in DOMAIN grid[y] |->
                 IF inside(x, y) THEN (IF ring(x, y) THEN "Wall" ELSE "Empty")
                 ELSE grid[y][x]]]
        interior == {Pos(x, y) : x \in (b.x0 + 1)..(b.x1 - 1), y \in (b.y0 + 1)..(b.y1 - 1)}
        pen_spawns == InOrder(interior, width)
        door == Pos((b.x0 + b.x1) \div 2, b.y0)
        g2 == SetTile(g1, door.x, door.y, "Gate")
        g3 == carve_corridor(g2, door.x, saturating_sub(door.y, 1))
    IN  [grid |-> g3, pen_all |-> Append(pen_spawns, door), door |-> door,
         pen_spawns |-> pen_spawns, pen_bounds |-> b]

pick_ghost_spawns(pen_spawns) ==
    IF pen_spawns = <<>> THEN <<>>
    ELSE [i \in 0..3 |-> IF i < Len(pen_spawns) THEN pen_spawns[i + 1] ELSE pen_spawns[1]]

is_walkable_for_player(grid, pen, pos) ==
    IF is_in_pen_bounds(pos, pen) THEN FALSE
    ELSE grid[pos.y][pos.x] \notin {"Wall", "Gate"}

\* The positions `for y in 1..height - 1 { for x in 1..width - 1 }` visits.
Inner(width, height) == {Pos(x, y) : x \in 1..(width - 2), y \in 1..(height - 2)}

find_start(grid, width, height, pen) ==
    LET S == {p \in Inner(width, height) : is_walkable_for_player(grid, pen, p)}
    IN  IF S = {} THEN None
        ELSE Some(CHOOSE q \in S : \A r \in S : RowMajor(q, width) <= RowMajor(r, width))

Neighbors4(pos) == {Pos(pos.x, pos.y - 1), Pos(pos.x, pos.y + 1),
                    Pos(pos.x - 1, pos.y), Pos(pos.x + 1, pos.y)}

\* flood: the set of positions whose `seen` entry is true.  The queue of the
\* code is replaced by the set of positions still to expand; the table it
\* returns does not depend on the order.
RECURSIVE flood_from(_, _, _, _, _, _)
flood_from(grid, width, height, pen, seen, todo) ==
    IF todo = {} THEN seen
    ELSE LET next == {n \in UNION {Neighbors4(p) : p \in todo} :
                        /\ ~(n.x <= 0 \/ n.y <= 0 \/ n.x >= width - 1 \/ n.y >= height - 1)
                        /\ n \notin seen
                        /\ is_walkable_for_player(grid, pen, n)}
         IN  flood_from(grid, width, height, pen, seen \cup next, next)

flood(grid, width, height, pen, start) ==
    flood_from(grid, width, height, pen, {start}, {start})

has_unreachable(grid, width, height, pen, reachable) ==
    \E p \in Inner(width, height) :
        is_walkable_for_player(grid, pen, p) /\ p \notin reachable

\* The wall tiles the repair loop of ensure_connected may carve.
repair_candidates(grid, width, height, pen, reachable) ==
    {p \in Inner(width, height) :
        /\ grid[p.y][p.x] = "Wall"
        /\ ~is_pen_wall(p, pen)
        /\ \E n \in Neighbors4(p) : is_walkable_for_player(grid, pen, n) /\ n \in reachable
        /\ \E n \in Neighbors4(p) : is_walkable_for_player(grid, pen, n) /\ n \notin reachable}

RECURSIVE repair_loop(_, _, _, _, _, _, _)
repair_loop(grid, width, height, pen, start, reachable, iterations) ==
    IF ~(has_unreachable(grid, width, height, pen, reachable) /\ iterations < width * height)
    THEN grid
    ELSE LET C == repair_candidates(grid, width, height, pen, reachable)
         IN  IF C = {} THEN grid
             ELSE LET p == CHOOSE q \in C : \A r \in C : RowMajor(q, width) <= RowMajor(r, width)
                      g2 == SetTile(grid, p.x, p.y, "Empty")
                  IN  repair_loop(g2, width, height, pen, start,
                                  flood(g2, width, height, pen, start), iterations + 1)

ensure_connected(grid, width, height, pen) ==
    LET start == find_start(grid, width, height, pen)
    IN  IF start = None THEN grid
        ELSE repair_loop(grid, width, height, pen, start[1],
                         flood(grid, width, height, pen, start[1]), 0)

SeqToSet(seq) == {seq[i] : i \in 1..Len(seq)}

\* A variant of place_pellets whose pen clearing does not skip the Gate; C25
\* must reject it.
place_pellets_clears_gate(grid, width, height, pen_all) ==
    LET inPen == SeqToSet(pen_all)
        isNew(x, y) == /\ x \in 1..(width - 2) /\ y \in 1..(height - 2)
                       /\ grid[y][x] = "Empty" /\ Pos(x, y) \notin inPen
        g1 == [y \in DOMAIN grid |-> [x \in DOMAIN grid[y] |->
                 IF isNew(x, y) THEN "Pellet" ELSE grid[y][x]]]
        pellets == Cardinality({p \in Inner(width, height) : isNew(p.x, p.y)})
        power_spots == {Pos(1, 1), Pos(width - 2, 1), Pos(1, height - 2),
                        Pos(width - 2, height - 2)}
        g2 == [y \in DOMAIN g1 |-> [x \in DOMAIN g1[y] |->
                 IF Pos(x, y) \in power_spots /\ g1[y][x] # "Wall" THEN "Power"
                 ELSE g1[y][x]]]
        g3 == [y \in DOMAIN g2 |-> [x \in DOMAIN g2[y] |->
                 IF Pos(x, y) \in inPen /\ g2[y][x] # "Wall" THEN "Empty"
                 ELSE g2[y][x]]]
    IN  [grid |-> g3, pellets |-> pellets]

\* A variant of place_pellets that turns the four power spots into Power
\* whatever they hold; C26 must reject it.
place_pellets_power_on_walls(grid, width, height, pen_all) ==
    LET inPen == SeqToSet(pen_all)
        isNew(x, y) == /\ x \in 1..(width - 2) /\ y \in 1..(height - 2)
                       /\ grid[y][x] = "Empty" /\ Pos(x, y) \notin inPen
        g1 == [y \in DOMAIN grid |-> [x \in DOMAIN grid[y] |->
                 IF isNew(x, y) THEN "Pellet" ELSE grid[y][x]]]
        pellets == Cardinality({p \in Inner(width, height) : isNew(p.x, p.y)})
        power_spots == {Pos(1, 1), Pos(width - 2, 1), Pos(1, height - 2),
                        Pos(width - 2, height - 2)}
        g2 == [y \in DOMAIN g1 |-> [x \in DOMAIN g1[y] |->
                 IF Pos(x, y) \in power_spots THEN "Power" ELSE g1[y][x]]]
        g3 == [y \in DOMAIN g2 |-> [x \in DOMAIN g2[y] |->
                 IF Pos(x, y) \in inPen /\ g2[y][x] \notin {"Gate", "Wall"} THEN "Empty"
                 ELSE g2[y][x]]]
    IN  [grid |-> g3, pellets |-> pellets]

\* The pellet loop, the four power spots and the pen clearing of generate_maze.
place_pellets(grid, width, height, pen_all) ==
    LET inPen == SeqToSet(pen_all)
        isNew(x, y) == /\ x \in 1..(width - 2) /\ y \in 1..(height - 2)
                       /\ grid[y][x] = "Empty" /\ Pos(x, y) \notin inPen
        g1 == [y \in DOMAIN grid |-> [x \in DOMAIN grid[y] |->
                 IF isNew(x, y) THEN "Pellet" ELSE grid[y][x]]]
        pellets == Cardinality({p \in Inner(width, height) : isNew(p.x, p.y)})
        power_spots == {Pos(1, 1), Pos(width - 2, 1), Pos(1, height - 2),
                        Pos(width - 2, height - 2)}
        g2 == [y \in DOMAIN g1 |-> [x \in DOMAIN g1[y] |->
                 IF Pos(x, y) \in power_spots /\ g1[y][x] # "Wall" THEN "Power"
                 ELSE g1[y][x]]]
        g3 == [y \in DOMAIN g2 |-> [x \in DOMAIN g2[y] |->
                 IF Pos(x, y) \in inPen /\ g2[y][x] \notin {"Gate", "Wall"} THEN "Empty"
                 ELSE g2[y][x]]]
    IN  [grid |-> g3, pellets |-> pellets]

\* The spanning tree of generate_maze: the grid of walls, the start cell and
\* the frontier loop.
spanning_tree(s, width, height) ==
    LET cells_w == (width - 1) \div 2
        cells_h == (height - 1) \div 2
        grid0 == [y \in 0..(height - 1) |-> [x \in 0..(width - 1) |-> "Wall"]]
        sx == gen_range(s, 0, cells_w - 1)
        r1 == RngNext(s)
        sy == gen_range(r1, 0, cells_h - 1)
        r2 == RngNext(r1)
        in0 == {<<sx, sy>>}
    IN  frontier_loop([grid |-> carve_cell(grid0, sx, sy), in_maze |-> in0,
                       frontier |-> add_frontier(sx, sy, cells_w, cells_h, in0, <<>>),
                       rng |-> r2, carved |-> 0],
                      cells_w, cells_h)

generate_maze(s, width, height) ==
    LET cells_w == (width - 1) \div 2
        cells_h == (height - 1) \div 2
        result(placed, pen, s1) ==
            [grid |-> placed.grid, pellets |-> placed.pellets,
             ghost_spawns |-> pick_ghost_spawns(pen.pen_spawns),
             pen_bounds |-> pen.pen_bounds, rng |-> s1]
        with_pen(pen, s1) ==
            result(place_pellets(ensure_connected(pen.grid, width, height, pen.pen_bounds),
                                 width, height, pen.pen_all),
                   pen, s1)
        with_braided(braided) ==
            with_pen(carve_ghost_pen(braided.grid, width, height), braided.rng)
        with_tree(tree) ==
            with_braided(braid_maze(tree.grid, cells_w, cells_h, tree.rng))
    IN  with_tree(spanning_tree(s, width, height))

\* --------------------------------------------------------------- path field

\* One direction of the inner loop of bfs_distance for the tile pos just
\* popped: st holds dist (the table) and q (the queue).
bfs_visit(st, grid, width, height, pos, dir, gate_open) ==
    IF ~can_move_ghost(grid, width, height, pos, dir, gate_open) THEN st
    ELSE LET next == step(pos, dir)
         IN  IF st.dist[next.y][next.x] = -1
             THEN [dist |-> [st.dist EXCEPT ![next.y][next.x] = st.dist[pos.y][pos.x] + 1],
                   q |-> Append(st.q, next)]
             ELSE st

\* The `while let Some(pos) = q.pop_front()` loop.
\* A variant of the loop that pops the newest entry of the queue (pop_back);
\* C8 must reject it.
RECURSIVE bfs_loop_lifo(_, _, _, _, _)
bfs_loop_lifo(st, grid, width, height, gate_open) ==
    IF st.q = <<>> THEN st.dist
    ELSE LET pos == st.q[Len(st.q)]
             s0 == [dist |-> st.dist, q |-> SubSeq(st.q, 1, Len(st.q) - 1)]
             s1 == bfs_visit(s0, grid, width, height, pos, "Up", gate_open)
             s2 == bfs_visit(s1, grid, width, height, pos, "Down", gate_open)
             s3 == bfs_visit(s2, grid, width, height, pos, "Left", gate_open)
             s4 == bfs_visit(s3, grid, width, height, pos, "Right", gate_open)
         IN  bfs_loop_lifo(s4, grid, width, height, gate_open)

RECURSIVE bfs_loop(_, _, _, _, _)
bfs_loop(st, grid, width, height, gate_open) ==
    IF st.q = <<>> THEN st.dist
    ELSE LET pos == Head(st.q)
             s0 == [dist |-> st.dist, q |-> Tail(st.q)]
             s1 == bfs_visit(s0, grid, width, height, pos, "Up", gate_open)
             s2 == bfs_visit(s1, grid, width, height, pos, "Down", gate_open)
             s3 == bfs_visit(s2, grid, width, height, pos, "Left", gate_open)
             s4 == bfs_visit(s3, grid, width, height, pos, "Right", gate_open)
         IN  bfs_loop(s4, grid, width, height, gate_open)

bfs_distance(grid, width, height, start, gate_open) ==
    LET dist0 == [y \in 0..(height - 1) |-> [x \in 0..(width - 1) |-> -1]]
    IN  bfs_loop([dist |-> [dist0 EXCEPT ![start.y][start.x] = 0], q |-> <<start>>],
                 grid, width, height, gate_open)

\* ----------------------------------------------------------- ghost controller

\* One direction of the loop of ghost_next_dir: st holds options and best.
ghost_consider(st, pos, grid, width, height, dist, dir, gate_open) ==
    IF ~can_move_ghost(grid, width, height, pos, dir, gate_open) THEN st
    ELSE LET next == step(pos, dir)
             d == dist[next.y][next.x]
         IN  IF d >= 0 /\ d < st.best THEN [options |-> <<dir>>, best |-> d]
             ELSE IF d >= 0 /\ d = st.best
             THEN [options |-> Append(st.options, dir), best |-> st.best]
             ELSE st

\* The options vector ghost_next_dir chooses from.
ghost_options(pos, grid, width, height, dist, gate_open) ==
    LET s0 == [options |-> <<>>, best |-> 2147483647]
        s1 == ghost_consider(s0, pos, grid, width, height, dist, "Up", gate_open)
        s2 == ghost_consider(s1, pos, grid, width, height, dist, "Down", gate_open)
        s3 == ghost_consider(s2, pos, grid, width, height, dist, "Left", gate_open)
        s4 == ghost_consider(s3, pos, grid, width, height, dist, "Right", gate_open)
    IN  s4.options

\* The direction chosen and the random state after the call: `choose` draws
\* only from a non-empty vector.
ghost_next_dir(pos, grid, width, height, dist, s, gate_open) ==
    LET options == ghost_options(pos, grid, width, height, dist, gate_open)
    IN  IF options = <<>> THEN [dir |-> None, rng |-> s]
        ELSE [dir |-> Some(choose(s, options)), rng |-> RngNext(s)]

\* A variant of pen_options that lets a caged ghost take any move open to a
\* ghost, the Gate included; C19 must reject it.
pen_options_through_gate(pos, grid, width, height, pen) ==
    SelectSeq(Dirs, LAMBDA dir : can_move_ghost(grid, width, height, pos, dir, TRUE))

pen_options(pos, grid, width, height, pen) ==
    SelectSeq(Dirs, LAMBDA dir :
        /\ can_move_ghost(grid, width, height, pos, dir, FALSE)
        /\ in_pen_interior(step(pos, dir), pen))

ghost_next_dir_pen(pos, grid, width, height, pen, s) ==
    LET options == pen_options(pos, grid, width, height, pen)
    IN  IF options = <<>> THEN [dir |-> None, rng |-> s]
        ELSE [dir |-> Some(choose(s, options)), rng |-> RngNext(s)]

\* ------------------------------------------------------------- bonus spawner

\* A variant of random_bonus_spawn that falls back on the player's tile when
\* no tile is free; C16 must reject it.
random_bonus_spawn_on_player(g, s) ==
    LET ghostTiles == {g.ghosts[i] : i \in DOMAIN g.ghosts}
        C == {p \in Inner(g.width, g.height) :
                /\ g.grid[p.y][p.x] = "Empty"
                /\ ~is_in_pen(p, g.width, g.height)
                /\ g.player # p
                /\ p \notin ghostTiles}
        candidates == InOrder(C, g.width)
    IN  IF candidates = <<>> THEN [pos |-> Some(g.player), rng |-> s]
        ELSE [pos |-> Some(choose(s, candidates)), rng |-> RngNext(s)]

\* A variant of random_bonus_spawn that does not skip the ghosts' tiles; C27
\* must reject it.
random_bonus_spawn_under_ghosts(g, s) ==
    LET C == {p \in Inner(g.width, g.height) :
                /\ g.grid[p.y][p.x] = "Empty"
                /\ ~is_in_pen(p, g.width, g.height)
                /\ g.player # p}
        candidates == InOrder(C, g.width)
    IN  IF candidates = <<>> THEN [pos |-> None, rng |-> s]
        ELSE [pos |-> Some(choose(s, candidates)), rng |-> RngNext(s)]

random_bonus_spawn(g, s) ==
    LET ghostTiles == {g.ghosts[i] : i \in DOMAIN g.ghosts}
        C == {p \in Inner(g.width, g.height) :
                /\ g.grid[p.y][p.x] = "Empty"
                /\ ~is_in_pen(p, g.width, g.height)
                /\ g.player # p
                /\ p \notin ghostTiles}
        candidates == InOrder(C, g.width)
    IN  IF candidates = <<>> THEN [pos |-> None, rng |-> s]
        ELSE [pos |-> Some(choose(s, candidates)), rng |-> RngNext(s)]

\* ------------------------------------------------------- the methods of Game
\* Each takes the Game record g (and the random state s where the code takes
\* rng) and returns the record after the call (with the random state after it).

apply_input(g, desired_dir, input_active) ==
    IF ~input_active THEN [g EXCEPT !.dir = None]
    ELSE IF desired_dir # None
            /\ can_move_player(g.grid, g.width, g.height, g.player, desired_dir[1])
    THEN [g EXCEPT !.dir = desired_dir]
    ELSE g

\* A variant of move_player that keeps an illegal committed direction; C22
\* must reject it.
move_player_keeps_dir(g) ==
    IF g.dir = None THEN g
    ELSE IF can_move_player(g.grid, g.width, g.height, g.player, g.dir[1])
    THEN [g EXCEPT !.player = step(g.player, g.dir[1])]
    ELSE g

move_player(g) ==
    IF g.dir = None THEN g
    ELSE IF can_move_player(g.grid, g.width, g.height, g.player, g.dir[1])
    THEN [g EXCEPT !.player = step(g.player, g.dir[1])]
    ELSE [g EXCEPT !.dir = None]

\* A variant of consume_tile that adds POWER_TICKS to the countdown; C7 must
\* reject it.
consume_tile_adds_power(g) ==
    LET t == g.grid[g.player.y][g.player.x]
    IN  IF t = "Pellet"
        THEN [g EXCEPT !.grid = SetTile(g.grid, g.player.x, g.player.y, "Empty"),
                       !.score = g.score + 10,
                       !.pellets_left = saturating_sub(g.pellets_left, 1)]
        ELSE IF t = "Power"
        THEN [g EXCEPT !.grid = SetTile(g.grid, g.player.x, g.player.y, "Empty"),
                       !.score = g.score + 50,
                       !.pellets_left = saturating_sub(g.pellets_left, 1),
                       !.power_timer = g.power_timer + POWER_TICKS]
        ELSE g

\* A variant of consume_tile that does not count a Power tile; C1 must
\* reject it.
consume_tile_skips_count(g) ==
    LET t == g.grid[g.player.y][g.player.x]
    IN  IF t = "Pellet"
        THEN [g EXCEPT !.grid = SetTile(g.grid, g.player.x, g.player.y, "Empty"),
                       !.score = g.score + 10,
                       !.pellets_left = saturating_sub(g.pellets_left, 1)]
        ELSE IF t = "Power"
        THEN [g EXCEPT !.grid = SetTile(g.grid, g.player.x, g.player.y, "Empty"),
                       !.score = g.score + 50,
                       !.power_timer = POWER_TICKS]
        ELSE g

consume_tile(g) ==
    LET t == g.grid[g.player.y][g.player.x]
    IN  IF t = "Pellet"
        THEN [g EXCEPT !.grid = SetTile(g.grid, g.player.x, g.player.y, "Empty"),
                       !.score = g.score + 10,
                       !.pellets_left = saturating_sub(g.pellets_left, 1)]
        ELSE IF t = "Power"
        THEN [g EXCEPT !.grid = SetTile(g.grid, g.player.x, g.player.y, "Empty"),
                       !.score = g.score + 50,
                       !.pellets_left = saturating_sub(g.pellets_left, 1),
                       !.power_timer = POWER_TICKS]
        ELSE g

\* A variant of try_collect_bonus that replaces the power countdown by
\* BONUS_POWER_BOOST; C14 must reject it.
try_collect_bonus_replaces(g, s) ==
    IF g.bonus_pos # None /\ g.bonus_pos[1] = g.player
    THEN [game |-> [g EXCEPT !.score = g.score + BONUS_SCORE,
                             !.power_timer = BONUS_POWER_BOOST,
                             !.bonus_pos = None,
                             !.bonus_timer = 0,
                             !.bonus_spawn_in = gen_range(s, BONUS_MIN_TICKS, BONUS_MAX_TICKS)],
          rng |-> RngNext(s)]
    ELSE [game |-> g, rng |-> s]

\* A variant of try_collect_bonus that raises the power countdown to
\* BONUS_POWER_BOOST where it is lower and adds nothing; C36 must reject it.
try_collect_bonus_tops_up(g, s) ==
    IF g.bonus_pos # None /\ g.bonus_pos[1] = g.player
    THEN [game |-> [g EXCEPT !.score = g.score + BONUS_SCORE,
                             !.power_timer = Max(g.power_timer, BONUS_POWER_BOOST),
                             !.bonus_pos = None,
                             !.bonus_timer = 0,
                             !.bonus_spawn_in = gen_range(s, BONUS_MIN_TICKS, BONUS_MAX_TICKS)],
          rng |-> RngNext(s)]
    ELSE [game |-> g, rng |-> s]

try_collect_bonus(g, s) ==
    IF g.bonus_pos # None /\ g.bonus_pos[1] = g.player
    THEN [game |-> [g EXCEPT !.score = g.score + BONUS_SCORE,
                             !.power_timer = Max(g.power_timer + BONUS_POWER_BOOST,
                                                 BONUS_POWER_BOOST),
                             !.bonus_pos = None,
                             !.bonus_timer = 0,
                             !.bonus_spawn_in = gen_range(s, BONUS_MIN_TICKS, BONUS_MAX_TICKS)],
          rng |-> RngNext(s)]
    ELSE [game |-> g, rng |-> s]

\* A variant of update_bonus whose idle branch also restarts the lifetime
\* countdown; C13 must reject it.
update_bonus_restarts_lifetime(g, s) ==
    IF g.bonus_pos # None
    THEN IF g.bonus_timer > 0
         THEN [game |-> [g EXCEPT !.bonus_timer = g.bonus_timer - 1], rng |-> s]
         ELSE [game |-> [g EXCEPT !.bonus_pos = None,
                                  !.bonus_spawn_in =
                                      gen_range(s, BONUS_MIN_TICKS, BONUS_MAX_TICKS)],
               rng |-> RngNext(s)]
    ELSE IF g.bonus_spawn_in > 0
    THEN [game |-> [g EXCEPT !.bonus_spawn_in = g.bonus_spawn_in - 1,
                             !.bonus_timer = BONUS_LIFETIME_TICKS],
          rng |-> s]
    ELSE LET placed(spawn) ==
                 [game |-> [(IF spawn.pos # None
                             THEN [g EXCEPT !.bonus_pos = spawn.pos,
                                            !.bonus_timer = BONUS_LIFETIME_TICKS]
                             ELSE g)
                            EXCEPT !.bonus_spawn_in =
                                gen_range(spawn.rng, BONUS_MIN_TICKS, BONUS_MAX_TICKS)],
                  rng |-> RngNext(spawn.rng)]
         IN  placed(random_bonus_spawn(g, s))

\* A variant of update_bonus that leaves in place a bonus whose lifetime
\* countdown has run out; C28 must reject it.
update_bonus_never_expires(g, s) ==
    IF g.bonus_pos # None
    THEN IF g.bonus_timer > 0
         THEN [game |-> [g EXCEPT !.bonus_timer = g.bonus_timer - 1], rng |-> s]
         ELSE [game |-> g, rng |-> s]
    ELSE IF g.bonus_spawn_in > 0
    THEN [game |-> [g EXCEPT !.bonus_spawn_in = g.bonus_spawn_in - 1], rng |-> s]
    ELSE LET placed(spawn) ==
                 [game |-> [(IF spawn.pos # None
                             THEN [g EXCEPT !.bonus_pos = spawn.pos,
                                            !.bonus_timer = BONUS_LIFETIME_TICKS]
                             ELSE g)
                            EXCEPT !.bonus_spawn_in =
                                gen_range(spawn.rng, BONUS_MIN_TICKS, BONUS_MAX_TICKS)],
                  rng |-> RngNext(spawn.rng)]
         IN  placed(random_bonus_spawn(g, s))

update_bonus(g, s) ==
    IF g.bonus_pos # None
    THEN IF g.bonus_timer > 0
         THEN [game |-> [g EXCEPT !.bonus_timer = g.bonus_timer - 1], rng |-> s]
         ELSE [game |-> [g EXCEPT !.bonus_pos = None,
                                  !.bonus_spawn_in =
                                      gen_range(s, BONUS_MIN_TICKS, BONUS_MAX_TICKS)],
               rng |-> RngNext(s)]
    ELSE IF g.bonus_spawn_in > 0
    THEN [game |-> [g EXCEPT !.bonus_spawn_in = g.bonus_spawn_in - 1], rng |-> s]
    ELSE LET placed(spawn) ==
                 [game |-> [(IF spawn.pos # None
                             THEN [g EXCEPT !.bonus_pos = spawn.pos,
                                            !.bonus_timer = BONUS_LIFETIME_TICKS]
                             ELSE g)
                            EXCEPT !.bonus_spawn_in =
                                gen_range(spawn.rng, BONUS_MIN_TICKS, BONUS_MAX_TICKS)],
                  rng |-> RngNext(spawn.rng)]
         IN  placed(random_bonus_spawn(g, s))

\* A variant of ghost_turn in which a released ghost stands still while the
\* power countdown runs; C29 must reject it.
ghost_turn_frightened(st, g, dist) ==
    LET idx == st.idx
        ghost == st.ghosts[idx]
        moved(c, release) ==
            [ghosts |-> IF c.dir # None
                        THEN [st.ghosts EXCEPT ![idx] = step(ghost, c.dir[1])]
                        ELSE st.ghosts,
             ghost_release |-> release,
             rng |-> c.rng, idx |-> idx + 1]
    IN  IF st.ghost_release[idx] > 0
        THEN moved(ghost_next_dir_pen(ghost, g.grid, g.width, g.height, g.pen_bounds, st.rng),
                   [st.ghost_release EXCEPT
                       ![idx] = saturating_sub(st.ghost_release[idx], 1)])
        ELSE IF g.power_timer > 0
        THEN [ghosts |-> st.ghosts, ghost_release |-> st.ghost_release,
              rng |-> st.rng, idx |-> idx + 1]
        ELSE moved(ghost_next_dir(ghost, g.grid, g.width, g.height, dist, st.rng, TRUE),
                   st.ghost_release)

\* A variant of ghost_turn in which a caged ghost's countdown falls by 2 on an
\* epoch; C31 must reject it.
ghost_turn_double_countdown(st, g, dist) ==
    LET idx == st.idx
        ghost == st.ghosts[idx]
        moved(c, release) ==
            [ghosts |-> IF c.dir # None
                        THEN [st.ghosts EXCEPT ![idx] = step(ghost, c.dir[1])]
                        ELSE st.ghosts,
             ghost_release |-> release,
             rng |-> c.rng, idx |-> idx + 1]
    IN  IF st.ghost_release[idx] > 0
        THEN moved(ghost_next_dir_pen(ghost, g.grid, g.width, g.height, g.pen_bounds, st.rng),
                   [st.ghost_release EXCEPT
                       ![idx] = saturating_sub(st.ghost_release[idx], 2)])
        ELSE moved(ghost_next_dir(ghost, g.grid, g.width, g.height, dist, st.rng, TRUE),
                   st.ghost_release)

\* One ghost of the loop of update_ghosts: st holds ghosts, ghost_release, rng
\* and idx, the index of the ghost to move.
ghost_turn(st, g, dist) ==
    LET idx == st.idx
        ghost == st.ghosts[idx]
        moved(c, release) ==
            [ghosts |-> IF c.dir # None
                        THEN [st.ghosts EXCEPT ![idx] = step(ghost, c.dir[1])]
                        ELSE st.ghosts,
             ghost_release |-> release,
             rng |-> c.rng, idx |-> idx + 1]
    IN  IF st.ghost_release[idx] > 0
        THEN moved(ghost_next_dir_pen(ghost, g.grid, g.width, g.height, g.pen_bounds, st.rng),
                   [st.ghost_release EXCEPT
                       ![idx] = saturating_sub(st.ghost_release[idx], 1)])
        ELSE moved(ghost_next_dir(ghost, g.grid, g.width, g.height, dist, st.rng, TRUE),
                   st.ghost_release)

RECURSIVE ghosts_loop(_, _, _)
ghosts_loop(st, g, dist) ==
    IF st.idx \notin DOMAIN st.ghosts THEN st
    ELSE ghosts_loop(ghost_turn(st, g, dist), g, dist)

\* A variant of update_ghosts without the early return between epochs: the
\* ghosts act on every tick; C20 must reject it.
update_ghosts_every_tick(g, s) ==
    LET g1 == [g EXCEPT !.ghost_tick = g.ghost_tick + 1]
        moved(st) == [game |-> [g1 EXCEPT !.ghosts = st.ghosts,
                                          !.ghost_release = st.ghost_release],
                      rng |-> st.rng]
    IN  moved(ghosts_loop([ghosts |-> g.ghosts, ghost_release |-> g.ghost_release,
                           rng |-> s, idx |-> 0],
                          g, bfs_distance(g.grid, g.width, g.height, g.player, TRUE)))

\* ghost_tick is a u32 and wraps at 2^32 ticks, far beyond any run checked
\* here, so wrapping_add(1) is + 1.
update_ghosts(g, s) ==
    LET t == g.ghost_tick + 1
        g1 == [g EXCEPT !.ghost_tick = t]
        moved(st) == [game |-> [g1 EXCEPT !.ghosts = st.ghosts,
                                          !.ghost_release = st.ghost_release],
                      rng |-> st.rng]
    IN  IF t % GHOST_MOVE_INTERVAL # 0 THEN [game |-> g1, rng |-> s]
        ELSE moved(ghosts_loop([ghosts |-> g.ghosts, ghost_release |-> g.ghost_release,
                                rng |-> s, idx |-> 0],
                               g, bfs_distance(g.grid, g.width, g.height, g.player, TRUE)))

\* A variant of tick_power_timer that counts down on AI epochs only; C12 must
\* reject it.
tick_power_timer_on_epochs(g) ==
    IF g.power_timer > 0 /\ g.ghost_tick % GHOST_MOVE_INTERVAL = 0
    THEN [g EXCEPT !.power_timer = g.power_timer - 1] ELSE g

\* A variant of tick_power_timer that counts down by two; C33 must reject it.
tick_power_timer_by_two(g) ==
    IF g.power_timer > 0 THEN [g EXCEPT !.power_timer = saturating_sub(g.power_timer, 2)]
    ELSE g

tick_power_timer(g) ==
    IF g.power_timer > 0 THEN [g EXCEPT !.power_timer = g.power_timer - 1] ELSE g

\* A variant of first_hit that resolves the last ghost found on the player's
\* tile; C18 must reject it.
last_hit(g) ==
    LET H == {i \in DOMAIN g.ghosts : g.ghosts[i] = g.player}
    IN  IF H = {} THEN None ELSE Some(CHOOSE i \in H : \A j \in H : i >= j)

\* The index handle_collisions resolves: the first ghost on the player's tile.
first_hit(g) ==
    LET H == {i \in DOMAIN g.ghosts : g.ghosts[i] = g.player}
    IN  IF H = {} THEN None ELSE Some(CHOOSE i \in H : \A j \in H : i <= j)

\* A variant of release_schedule that releases every ghost at once; C4 must
\* reject it.
release_schedule_flat(ghost_spawns) == [i \in DOMAIN ghost_spawns |-> 0]

\* The staggered schedule pushed by new_game, next_level and handle_collisions.
release_schedule(ghost_spawns) ==
    [i \in DOMAIN ghost_spawns |-> i * GHOST_RELEASE_INTERVAL]

\* A variant of handle_collisions that sends every ghost home when one is
\* caught under power; C3 must reject it.
handle_collisions_all_home(g, s) ==
    LET hit == first_hit(g)
    IN  IF hit = None THEN [game |-> g, rng |-> s]
        ELSE IF g.power_timer > 0
        THEN [game |-> [g EXCEPT !.score = g.score + 200,
                                 !.ghosts = g.ghost_spawns],
              rng |-> s]
        ELSE [game |-> [g EXCEPT !.lives = IF g.lives > 0 THEN g.lives - 1 ELSE g.lives,
                                 !.player = g.player_spawn,
                                 !.ghosts = g.ghost_spawns,
                                 !.ghost_release = release_schedule(g.ghost_spawns),
                                 !.power_timer = 0,
                                 !.bonus_pos = None,
                                 !.bonus_timer = 0,
                                 !.bonus_spawn_in =
                                     gen_range(s, BONUS_MIN_TICKS, BONUS_MAX_TICKS)],
              rng |-> RngNext(s)]

\* A variant of handle_collisions that takes a life and leaves the player and
\* the ghosts where they are; C35 must reject it.
handle_collisions_no_reset(g, s) ==
    LET hit == first_hit(g)
    IN  IF hit = None THEN [game |-> g, rng |-> s]
        ELSE IF g.power_timer > 0
        THEN [game |-> [g EXCEPT !.score = g.score + 200,
                                 !.ghosts[hit[1]] = g.ghost_spawns[hit[1]]],
              rng |-> s]
        ELSE [game |-> [g EXCEPT !.lives = IF g.lives > 0 THEN g.lives - 1 ELSE g.lives,
                                 !.bonus_pos = None,
                                 !.bonus_timer = 0,
                                 !.bonus_spawn_in =
                                     gen_range(s, BONUS_MIN_TICKS, BONUS_MAX_TICKS)],
              rng |-> RngNext(s)]

handle_collisions(g, s) ==
    LET hit == first_hit(g)
    IN  IF hit = None THEN [game |-> g, rng |-> s]
        ELSE IF g.power_timer > 0
        THEN [game |-> [g EXCEPT !.score = g.score + 200,
                                 !.ghosts[hit[1]] = g.ghost_spawns[hit[1]]],
              rng |-> s]
        ELSE [game |-> [g EXCEPT !.lives = IF g.lives > 0 THEN g.lives - 1 ELSE g.lives,
                                 !.player = g.player_spawn,
                                 !.ghosts = g.ghost_spawns,
                                 !.ghost_release = release_schedule(g.ghost_spawns),
                                 !.power_timer = 0,
                                 !.bonus_pos = None,
                                 !.bonus_timer = 0,
                                 !.bonus_spawn_in =
                                     gen_range(s, BONUS_MIN_TICKS, BONUS_MAX_TICKS)],
              rng |-> RngNext(s)]

\* ------------------------------------------------------ new_game, next_level

empty_cells(grid, width, height) ==
    InOrder({Pos(x, y) : x \in 0..(width - 1), y \in 0..(height - 1)} \cap
            {p \in {Pos(x, y) : x \in 0..(width - 1), y \in 0..(height - 1)} :
                grid[p.y][p.x] \notin {"Wall", "Gate"}}, width)

\* The player's tile: the first shuffled empty cell that is no ghost spawn and
\* not in the pen (None where `expect` aborts), and the random state after the
\* shuffle.
pick_player(s, m, width, height) ==
    LET sh == shuffle(s, empty_cells(m.grid, width, height))
        spawns == {m.ghost_spawns[i] : i \in DOMAIN m.ghost_spawns}
        ok(p) == p \notin spawns /\ ~is_in_pen(p, width, height)
        I == {i \in 1..Len(sh.seq) : ok(sh.seq[i])}
    IN  [pos |-> IF I = {} THEN None
                 ELSE Some(sh.seq[CHOOSE i \in I : \A j \in I : i <= j]),
         rng |-> sh.rng]

\* Whether generate_maze aborts before it returns. For a width or height of 0,
\* `width - 1` underflows: a panic where overflow is checked, and otherwise a
\* wrapped cell count whose `in_maze` no allocation can hold. For 1 and 2 the
\* grid has no cell and gen_range panics on the empty range 0..0.
generate_maze_aborts(width, height) == width < 3 \/ height < 3

\* new_game: the Game constructed and the random state after it; panicked
\* where the code aborts.
new_game(s, level, width, height) ==
    LET built(m, pl) ==
            IF pl.pos = None THEN [panicked |-> TRUE, rng |-> pl.rng]
            ELSE [panicked |-> FALSE,
                  rng |-> RngNext(pl.rng),
                  game |-> [width |-> width, height |-> height, grid |-> m.grid,
                            player |-> pl.pos[1], player_spawn |-> pl.pos[1],
                            ghosts |-> m.ghost_spawns, ghost_spawns |-> m.ghost_spawns,
                            score |-> 0, lives |-> 3, level |-> level,
                            pellets_left |-> m.pellets, power_timer |-> 0, dir |-> None,
                            ghost_tick |-> 0,
                            ghost_release |-> release_schedule(m.ghost_spawns),
                            pen_bounds |-> m.pen_bounds, bonus_pos |-> None,
                            bonus_timer |-> 0,
                            bonus_spawn_in |->
                                gen_range(pl.rng, BONUS_MIN_TICKS, BONUS_MAX_TICKS)]]
        with_maze(m) == built(m, pick_player(m.rng, m, width, height))
    IN  IF generate_maze_aborts(width, height) THEN [panicked |-> TRUE, rng |-> s]
        ELSE with_maze(generate_maze(s, width, height))

\* A variant of next_level that carries the power countdown into the new
\* level; C10 must reject it.
next_level_keeps_power(g, s) ==
    LET carried(n) ==
            IF n.panicked THEN n
            ELSE [n EXCEPT !.game.score = g.score, !.game.lives = g.lives,
                           !.game.power_timer = g.power_timer]
    IN  carried(new_game(s, g.level + 1, g.width, g.height))

\* A variant of next_level that resolves collisions on the finished level
\* first and carries the lives left into the new one; C11 must reject it.
next_level_after_collisions(g, s) ==
    LET carried(n, h) ==
            IF n.panicked THEN n
            ELSE [n EXCEPT !.game.score = h.score, !.game.lives = h.lives]
    IN  carried(new_game(s, g.level + 1, g.width, g.height),
                handle_collisions(g, s).game)

next_level(g, s) ==
    LET built(m, pl) ==
            IF pl.pos = None THEN [panicked |-> TRUE, rng |-> pl.rng]
            ELSE [panicked |-> FALSE,
                  rng |-> RngNext(pl.rng),
                  game |-> [g EXCEPT !.level = g.level + 1,
                                     !.grid = m.grid,
                                     !.pellets_left = m.pellets,
                                     !.player = pl.pos[1],
                                     !.player_spawn = pl.pos[1],
                                     !.ghost_spawns = m.ghost_spawns,
                                     !.ghosts = m.ghost_spawns,
                                     !.ghost_release = release_schedule(m.ghost_spawns),
                                     !.pen_bounds = m.pen_bounds,
                                     !.power_timer = 0,
                                     !.dir = None,
                                     !.ghost_tick = 0,
                                     !.bonus_pos = None,
                                     !.bonus_timer = 0,
                                     !.bonus_spawn_in =
                                         gen_range(pl.rng, BONUS_MIN_TICKS, BONUS_MAX_TICKS)]]
        with_maze(m) == built(m, pick_player(m.rng, m, g.width, g.height))
    IN  with_maze(generate_maze(s, g.width, g.height))

\* tick as one call: the Game and the random state after it; panicked where
\* next_level aborts.
tick(g, s, desired_dir, input_active) ==
    LET done(r) == [panicked |-> FALSE, game |-> r.game, rng |-> r.rng]
        powered(r) == done(handle_collisions(tick_power_timer(r.game), r.rng))
        advanced(r) == powered(update_ghosts(r.game, r.rng))
        collected(r) == IF r.game.pellets_left = 0 THEN next_level(r.game, r.rng)
                        ELSE advanced(update_bonus(r.game, r.rng))
    IN  collected(try_collect_bonus(
            consume_tile(move_player(apply_input(g, desired_dir, input_active))), s))

\* ------------------------------------------------------------------- the game
\* `tick` runs its calls in order; pc names the call to run next, "idle"
\* between two ticks.

NoGame == [panicked |-> TRUE]

NoProbe == [phase |-> "none"]

\* The random streams played: with the first the player starts on the tile
\* above the gate, with the second at one end of the outer corridor.
Seeds == {31, 36}

DirOpt == {None} \cup {Some(d) : d \in Dir}

\* The inputs the player's plan gives in the state g: "stay" presses nothing;
\* "go" keeps the committed direction while it is legal, and otherwise presses
\* a legal direction that does not turn back (any legal one at a dead end or
\* when no direction is committed).
PlanInputs(g, plan) ==
    IF plan = "stay" THEN {<<None, FALSE>>}
    ELSE LET legal == {d \in Dir : can_move_player(g.grid, g.width, g.height, g.player, d)}
             back == IF g.dir = None THEN {}
                     ELSE {d \in Dir : delta(d)[1] = -delta(g.dir[1])[1]
                                       /\ delta(d)[2] = -delta(g.dir[1])[2]}
             ahead == IF g.dir # None /\ g.dir[1] \in legal THEN {g.dir[1]}
                      ELSE IF legal \ back # {} THEN legal \ back
                      ELSE legal
         IN  IF ahead = {} THEN {<<None, TRUE>>}
             ELSE {<<Some(d), TRUE>> : d \in ahead}

Plans == {"stay", "go"}

Init ==
    \E seed \in Seeds, plan \in Plans :
        LET constructed(n) ==
                /\ game = IF n.panicked THEN NoGame ELSE n.game
                /\ rng = n.rng
                /\ pc = IF n.panicked THEN "panic" ELSE "idle"
        IN  /\ constructed(new_game(seed, 1, GridW, GridH))
            /\ ticks = 0
            /\ input = [plan |-> plan, turns |-> 0]
            /\ probe = NoProbe

\* The first call of tick. The arguments follow the player's plan; at most
\* MaxTurns ticks of a run depart from it, with any pair of arguments or with a
\* change of plan.
ApplyInput ==
    /\ pc = "idle"
    /\ ticks < MaxTicks
    /\ \/ /\ \E a \in PlanInputs(game, input.plan) :
                 game' = apply_input(game, a[1], a[2])
          /\ UNCHANGED input
       \/ /\ input.turns < MaxTurns
          /\ \E desired_dir \in DirOpt, input_active \in BOOLEAN :
                 game' = apply_input(game, desired_dir, input_active)
          /\ input' = [input EXCEPT !.turns = input.turns + 1]
       \/ /\ input.turns < MaxTurns
          /\ \E plan \in Plans \ {input.plan} :
                 /\ \E a \in PlanInputs(game, plan) :
                       game' = apply_input(game, a[1], a[2])
                 /\ input' = [plan |-> plan, turns |-> input.turns + 1]
    /\ pc' = "move_player"
    /\ ticks' = ticks + 1
    /\ UNCHANGED <<rng, probe>>

MovePlayer ==
    /\ pc = "move_player"
    /\ game' = move_player(game)
    /\ pc' = "consume_tile"
    /\ UNCHANGED <<rng, ticks, input, probe>>

ConsumeTile ==
    /\ pc = "consume_tile"
    /\ game' = consume_tile(game)
    /\ pc' = "try_collect_bonus"
    /\ UNCHANGED <<rng, ticks, input, probe>>

TryCollectBonus ==
    /\ pc = "try_collect_bonus"
    /\ LET returned(r) == game' = r.game /\ rng' = r.rng
       IN  returned(try_collect_bonus(game, rng))
    /\ pc' = "level_check"
    /\ UNCHANGED <<ticks, input, probe>>

NextLevel ==
    /\ pc = "level_check"
    /\ game.pellets_left = 0
    /\ LET returned(r) ==
               /\ game' = IF r.panicked THEN game ELSE r.game
               /\ rng' = r.rng
               /\ pc' = IF r.panicked THEN "panic" ELSE "idle"
       IN  returned(next_level(game, rng))
    /\ UNCHANGED <<ticks, input, probe>>

UpdateBonus ==
    /\ pc = "level_check"
    /\ game.pellets_left # 0
    /\ LET returned(r) == game' = r.game /\ rng' = r.rng
       IN  returned(update_bonus(game, rng))
    /\ pc' = "update_ghosts"
    /\ UNCHANGED <<ticks, input, probe>>

UpdateGhosts ==
    /\ pc = "update_ghosts"
    /\ LET returned(r) == game' = r.game /\ rng' = r.rng
       IN  returned(update_ghosts(game, rng))
    /\ pc' = "tick_power_timer"
    /\ UNCHANGED <<ticks, input, probe>>

TickPowerTimer ==
    /\ pc = "tick_power_timer"
    /\ game' = tick_power_timer(game)
    /\ pc' = "handle_collisions"
    /\ UNCHANGED <<rng, ticks, input, probe>>

HandleCollisions ==
    /\ pc = "handle_collisions"
    /\ LET returned(r) == game' = r.game /\ rng' = r.rng
       IN  returned(handle_collisions(game, rng))
    /\ pc' = "idle"
    /\ UNCHANGED <<ticks, input, probe>>

Next ==
    \/ ApplyInput
    \/ MovePlayer
    \/ ConsumeTile
    \/ TryCollectBonus
    \/ NextLevel
    \/ UpdateBonus
    \/ UpdateGhosts
    \/ TickPowerTimer
    \/ HandleCollisions

Spec == Init /\ [][Next]_vars

\* ------------------------------------------------- generate_maze on its own
\* generate_maze applied to every odd width and height from 5 x 5 (the
\* smallest grid with a 3 x 3 pen and a border) up to the level played, under
\* GenSeeds random streams.

GenSeeds == 4

NoInput == [plan |-> "none", turns |-> 0]

InitGen ==
    \E cells_w \in 2..CellsW, cells_h \in 2..CellsH, seed \in 1..GenSeeds :
        /\ game = NoGame
        /\ rng = seed
        /\ pc = "probe"
        /\ ticks = 0
        /\ input = NoInput
        /\ probe = [phase |-> "generate_maze",
                    width |-> 2 * cells_w + 1, height |-> 2 * cells_h + 1]

GenerateMaze ==
    /\ probe.phase = "generate_maze"
    /\ LET returned(m) ==
               /\ probe' = [phase |-> "generated",
                            width |-> probe.width, height |-> probe.height,
                            grid |-> m.grid, pellets |-> m.pellets,
                            ghost_spawns |-> m.ghost_spawns,
                            pen_bounds |-> m.pen_bounds]
               /\ rng' = m.rng
       IN  returned(generate_maze(rng, probe.width, probe.height))
    /\ UNCHANGED <<game, pc, ticks, input>>

SpecGen == InitGen /\ [][GenerateMaze]_vars

\* ------------------------------------------------------ new_game on its own
\* new_game applied to every width and height from 0 up to the level played,
\* odd and even, under GenSeeds random streams.

InitNew ==
    \E width \in 0..GridW, height \in 0..GridH, seed \in 1..GenSeeds :
        /\ game = NoGame
        /\ rng = seed
        /\ pc = "probe"
        /\ ticks = 0
        /\ input = NoInput
        /\ probe = [phase |-> "new_game", width |-> width, height |-> height]

NewGame ==
    /\ probe.phase = "new_game"
    /\ LET returned(n) ==
               /\ probe' = [phase |-> "constructed",
                            width |-> probe.width, height |-> probe.height,
                            panicked |-> n.panicked]
               /\ game' = IF n.panicked THEN NoGame ELSE n.game
               /\ rng' = n.rng
       IN  returned(new_game(rng, 1, probe.width, probe.height))
    /\ UNCHANGED <<pc, ticks, input>>

SpecNew == InitNew /\ [][NewGame]_vars

\* ------------------------------------------------------- two copies of a game
\* Two Games constructed from the same random stream. The first copy takes a
\* tick with arguments of the player's choosing; the second copy then takes
\* its tick with the same arguments and its own copy of the random stream.
\* `game` and `rng` hold the first copy, `probe` the second copy and the
\* arguments it has still to replay; `ticks` counts the calls of both.

InitTwin ==
    \E seed \in Seeds, plan \in Plans :
        LET constructed(n) ==
                /\ game = n.game
                /\ rng = n.rng
                /\ probe = [phase |-> "twin", game |-> n.game, rng |-> n.rng,
                            pending |-> None]
        IN  /\ ticks = 0
            /\ constructed(new_game(seed, 1, GridW, GridH))
            /\ pc = "idle"
            /\ input = [plan |-> plan, turns |-> 0]

TwinTick ==
    /\ pc = "idle"
    /\ probe.pending = None
    /\ ticks < 2 * MaxTicks
    /\ \E turn \in BOOLEAN :
          /\ turn => input.turns < MaxTurns
          /\ input' = IF turn THEN [input EXCEPT !.turns = input.turns + 1] ELSE input
          /\ \E a \in IF turn THEN DirOpt \X BOOLEAN ELSE PlanInputs(game, input.plan) :
                LET returned(r) ==
                        /\ game' = IF r.panicked THEN game ELSE r.game
                        /\ rng' = r.rng
                        /\ pc' = IF r.panicked THEN "panic" ELSE "idle"
                IN  /\ returned(tick(game, rng, a[1], a[2]))
                    /\ probe' = [probe EXCEPT !.pending = Some(a)]
    /\ ticks' = ticks + 1

TwinReplay ==
    /\ pc = "idle"
    /\ probe.pending # None
    /\ LET returned(r) ==
               /\ probe' = [phase |-> "twin",
                            game |-> IF r.panicked THEN probe.game ELSE r.game,
                            rng |-> r.rng, pending |-> None]
               /\ pc' = IF r.panicked THEN "panic" ELSE "idle"
       IN  returned(tick(probe.game, probe.rng, probe.pending[1][1], probe.pending[1][2]))
    /\ ticks' = ticks + 1
    /\ UNCHANGED <<game, rng, input>>

NextTwin ==
    \/ TwinTick
    \/ TwinReplay

SpecTwin == InitTwin /\ [][NextTwin]_vars

\* -------------------------------------------------- bfs_distance on its own
\* bfs_distance applied to every BfsW x BfsH grid of Wall and Empty tiles with
\* at most one Gate, from every source tile, with the gate open and closed;
\* then applied again to the same arguments.

BfsW == 3
BfsH == 3

BfsTiles == {Pos(x, y) : x \in 0..(BfsW - 1), y \in 0..(BfsH - 1)}

InitBfs ==
    \E walls \in SUBSET BfsTiles, gate \in SUBSET BfsTiles, start \in BfsTiles,
       gate_open \in BOOLEAN :
        /\ Cardinality(gate) <= 1
        /\ game = NoGame
        /\ rng = 0
        /\ pc = "probe"
        /\ ticks = 0
        /\ input = NoInput
        /\ probe = [phase |-> "bfs_distance",
                    grid |-> [y \in 0..(BfsH - 1) |-> [x \in 0..(BfsW - 1) |->
                                IF Pos(x, y) \in gate THEN "Gate"
                                ELSE IF Pos(x, y) \in walls THEN "Wall"
                                ELSE "Empty"]],
                    width |-> BfsW, height |-> BfsH,
                    start |-> start, gate_open |-> gate_open]

BfsDistance ==
    /\ probe.phase = "bfs_distance"
    /\ probe' = [phase |-> "distances",
                 grid |-> probe.grid, width |-> probe.width, height |-> probe.height,
                 start |-> probe.start, gate_open |-> probe.gate_open,
                 dist |-> bfs_distance(probe.grid, probe.width, probe.height,
                                       probe.start, probe.gate_open)]
    /\ UNCHANGED <<game, rng, pc, ticks, input>>

BfsDistanceAgain ==
    /\ probe.phase = "distances"
    /\ probe' = [phase |-> "repeated",
                 grid |-> probe.grid, width |-> probe.width, height |-> probe.height,
                 start |-> probe.start, gate_open |-> probe.gate_open,
                 dist |-> probe.dist,
                 again |-> bfs_distance(probe.grid, probe.width, probe.height,
                                        probe.start, probe.gate_open)]
    /\ UNCHANGED <<game, rng, pc, ticks, input>>

NextBfs ==
    \/ BfsDistance
    \/ BfsDistanceAgain

SpecBfs == InitBfs /\ [][NextBfs]_vars

\* ------------------------------------------------------------ the properties
\* The vocabulary of the properties below.

\* A Game is being played (construction did not abort).
Playing == pc \notin {"panic", "probe"}

Tiles(g) == {Pos(x, y) : x \in 0..(g.width - 1), y \in 0..(g.height - 1)}

PelletTiles(g) == {p \in Tiles(g) : g.grid[p.y][p.x] \in {"Pellet", "Power"}}

BorderTiles(g) ==
    {p \in Tiles(g) : p.x \in {0, g.width - 1} \/ p.y \in {0, g.height - 1}}

\* The ghosts standing on the player's tile.
GhostsOnPlayer(g) == {i \in DOMAIN g.ghosts : g.ghosts[i] = g.player}

\* In level 1 every tile outside the pen that is Empty was eaten: the score the
\* tiles eaten so far account for (50 for a corner, 10 for any other tile).
CornerTiles(g) == {Pos(1, 1), Pos(g.width - 2, 1), Pos(1, g.height - 2),
                   Pos(g.width - 2, g.height - 2)}

EatenTiles(g) ==
    {p \in Tiles(g) : g.grid[p.y][p.x] = "Empty" /\ ~is_in_pen_bounds(p, g.pen_bounds)}

ScoreOfTiles(g) ==
    50 * Cardinality(EatenTiles(g) \cap CornerTiles(g))
    + 10 * Cardinality(EatenTiles(g) \ CornerTiles(g))

\* ------------------------------------------ tick from the middle of a level
\* The ticks of Spec stay within the first MaxTicks ticks of a level, where only
\* ghost 0 has left the pen and no bonus has appeared. SpecMid plays MidTicks
\* ticks from states 2 * GHOST_RELEASE_INTERVAL ticks into a level: some tiles
\* eaten, ghosts 0 and 1 released and in the corridor next to the player or back
\* on their spawns, ghosts 2 and 3 caged, either parity of the AI-epoch counter,
\* the power countdown off, about to end or running (where a Power tile has
\* been eaten), and the bonus absent, due or on an eaten tile next to the player.

MidTicks == 2

\* The tiles of g the player can stand on.
OutsideTiles(g) ==
    {p \in Tiles(g) : /\ g.grid[p.y][p.x] \notin {"Wall", "Gate"}
                      /\ ~is_in_pen_bounds(p, g.pen_bounds)}

\* The tiles the player can step to from its tile.
PlayerNeighbors(g) ==
    {step(g.player, d) : d \in {e \in Dir :
        can_move_player(g.grid, g.width, g.height, g.player, e)}}

\* g with the tiles of E eaten and the score they gave.
Eaten(g, E) ==
    LET grid == [y \in 0..(g.height - 1) |-> [x \in 0..(g.width - 1) |->
                    IF Pos(x, y) \in E THEN "Empty" ELSE g.grid[y][x]]]
    IN  [g EXCEPT !.grid = grid,
                  !.pellets_left = g.pellets_left - Cardinality(E \cap PelletTiles(g)),
                  !.score = 50 * Cardinality(E \cap PelletTiles(g) \cap CornerTiles(g))
                            + 10 * Cardinality((E \cap PelletTiles(g)) \ CornerTiles(g))]

\* The states of the bonus spawner played: absent with the respawn countdown
\* far, at 1 and at 0, and present on the tile n with its lifetime running
\* and run out.
BonusStates(n) ==
    {[pos |-> None, timer |-> 0, spawn_in |-> BONUS_MIN_TICKS],
     [pos |-> None, timer |-> 0, spawn_in |-> 1],
     [pos |-> None, timer |-> 0, spawn_in |-> 0],
     [pos |-> Some(n), timer |-> BONUS_LIFETIME_TICKS - 1, spawn_in |-> BONUS_MAX_TICKS],
     [pos |-> Some(n), timer |-> 0, spawn_in |-> BONUS_MIN_TICKS]}

\* The mid-level states built on the freshly constructed Game b.
MidGames(b) ==
    LET N == PlayerNeighbors(b)
        few == {{b.player} \cup N}
        last == {OutsideTiles(b) \ {n} : n \in N}
    IN  {[Eaten(b, E) EXCEPT
            !.ghosts = [i \in DOMAIN b.ghosts |->
                           IF i = 0 THEN g0 ELSE IF i = 1 THEN g1 ELSE b.ghosts[i]],
            !.ghost_release = [i \in DOMAIN b.ghosts |->
                           saturating_sub(b.ghost_release[i], GHOST_RELEASE_INTERVAL)],
            !.ghost_tick = gt,
            !.power_timer = pw,
            !.bonus_pos = bs.pos, !.bonus_timer = bs.timer,
            !.bonus_spawn_in = bs.spawn_in] :
         E \in few \cup last,
         g0 \in {b.ghost_spawns[0]} \cup N,
         g1 \in {b.ghost_spawns[1]} \cup N,
         gt \in {2 * GHOST_RELEASE_INTERVAL, 2 * GHOST_RELEASE_INTERVAL + 1},
         pw \in {0, 1, POWER_TICKS \div 2},
         bs \in UNION {BonusStates(n) : n \in N}}

InitMid ==
    \E seed \in Seeds, plan \in Plans :
        LET constructed(c) ==
                /\ \E g \in MidGames(c.game) :
                      /\ g.bonus_pos # None => g.grid[g.bonus_pos[1].y][g.bonus_pos[1].x] = "Empty"
                      /\ g.power_timer > 0 => EatenTiles(g) \cap CornerTiles(g) # {}
                      /\ game = g
                /\ rng = c.rng
        IN  /\ constructed(new_game(seed, 1, GridW, GridH))
            /\ pc = "idle"
            /\ ticks = MaxTicks - MidTicks
            /\ input = [plan |-> plan, turns |-> 0]
            /\ probe = NoProbe

SpecMid == InitMid /\ [][Next]_vars

\* ------------------------------------------------------- the loop of run
\* run calls tick for as long as lives is not 0 and returns when it is. The
\* player follows a route, a list of tiles each with the last tick at which
\* it is the one steered for, and releases the keys for good when the route
\* ends; from then on desired_dir is None and input_active false. Under the
\* first route the player waits in the corner left of the spawn of the first
\* random stream until the second ghost is out, meets both ghosts at the far
\* end of the top corridor and steps onto them; under the second the player
\* walks the corridor of the second random stream from end to end; under the
\* third the player waits beside the lower left corner of that corridor,
\* steps onto the corner as ghost 0 does, and later walks up to meet the ghost
\* again; under the fourth the player waits on the spawn of that stream, at
\* the end of the corridor, and then walks two tiles towards ghost 0 as it
\* comes near. probe holds the Game as it stood when the tick under way was
\* called.

RunTicks == 400

Routes ==
    [hunt  |-> << <<Pos(1, 1), 5>>, <<Pos(1, 6), 90>>, <<Pos(1, 7), 154>>,
                  <<Pos(11, 1), 180>>, <<Pos(10, 1), 198>>, <<Pos(9, 1), 199>> >>,
     clear |-> << <<Pos(1, 7), 11>>, <<Pos(1, 1), 17>>, <<Pos(11, 1), 27>>,
                  <<Pos(11, 5), 31>> >>,
     ambush |-> << <<Pos(2, 7), 31>>, <<Pos(1, 7), 117>>, <<Pos(1, 3), 121>> >>,
     swap |-> << <<Pos(11, 7), 100>>, <<Pos(10, 7), 101>>, <<Pos(9, 7), 102>> >>]

RunPlans == {"stay"} \cup DOMAIN Routes

\* The route of the plan has ended before tick number t.
RouteOver(plan, t) ==
    plan = "stay" \/ t > Routes[plan][Len(Routes[plan])][2]

\* The tile steered for at tick number t.
Waypoint(plan, t) ==
    LET route == Routes[plan]
        k == CHOOSE k \in 1..Len(route) :
                 t <= route[k][2] /\ \A j \in 1..(k - 1) : t > route[j][2]
    IN  route[k][1]

\* The keys of tick number t: none once the route is over or while the player
\* stands on the tile steered for, else a direction the player can move in
\* that shortens the way to it.
RouteInputs(g, plan, t) ==
    IF RouteOver(plan, t) THEN {<<None, FALSE>>}
    ELSE LET dist == bfs_distance(g.grid, g.width, g.height, Waypoint(plan, t), FALSE)
             at(p) == dist[p.y][p.x]
             toward == {d \in Dir :
                          /\ can_move_player(g.grid, g.width, g.height, g.player, d)
                          /\ at(step(g.player, d)) >= 0
                          /\ at(step(g.player, d)) < at(g.player)}
         IN  IF toward = {} THEN {<<None, FALSE>>}
             ELSE {<<Some(d), TRUE>> : d \in toward}

InitRun ==
    \E seed \in Seeds, plan \in RunPlans :
        LET constructed(c) ==
                /\ game = c.game
                /\ rng = c.rng
        IN  /\ constructed(new_game(seed, 1, GridW, GridH))
            /\ pc = "idle"
            /\ ticks = 0
            /\ input = [plan |-> plan, turns |-> 0]
            /\ probe = NoProbe

\* One pass of the loop that finds a tick due: the call of tick, up to the
\* end of apply_input. The loop has returned once lives is 0.
RunTick ==
    /\ pc = "idle"
    /\ game.lives # 0
    /\ ticks < RunTicks
    /\ \E a \in RouteInputs(game, input.plan, ticks + 1) :
           game' = apply_input(game, a[1], a[2])
    /\ input' = IF RouteOver(input.plan, ticks + 1)
                THEN [input EXCEPT !.plan = "stay"]
                ELSE input
    /\ pc' = "move_player"
    /\ ticks' = ticks + 1
    /\ probe' = [phase |-> "tick", game |-> game]
    /\ UNCHANGED rng

NextRun ==
    \/ RunTick
    \/ MovePlayer
    \/ ConsumeTile
    \/ TryCollectBonus
    \/ NextLevel
    \/ UpdateBonus
    \/ UpdateGhosts
    \/ TickPowerTimer
    \/ HandleCollisions

\* The loop polls without blocking and sleeps at most one frame, so a tick
\* that is due is taken.
SpecRun == InitRun /\ [][NextRun]_vars /\ WF_vars(NextRun)

\* ------------------------------------- the frontier loop of generate_maze
\* The loop pass by pass, on every grid of up to TreeW x TreeH half-resolution
\* cells, from every start cell and under every outcome of every draw.
\* probe holds the loop's variables and passes, the number of passes made.

TreeW == 3
TreeH == 3

InitTree ==
    \E cells_w \in 1..TreeW, cells_h \in 1..TreeH :
        \E sx \in 0..(cells_w - 1), sy \in 0..(cells_h - 1) :
            LET width == 2 * cells_w + 1
                height == 2 * cells_h + 1
                grid0 == [y \in 0..(height - 1) |-> [x \in 0..(width - 1) |-> "Wall"]]
                in0 == {<<sx, sy>>}
            IN  /\ game = NoGame
                /\ rng = 0
                /\ pc = "probe"
                /\ ticks = 0
                /\ input = NoInput
                /\ probe = [phase |-> "frontier",
                            cells_w |-> cells_w, cells_h |-> cells_h,
                            grid |-> carve_cell(grid0, sx, sy), in_maze |-> in0,
                            frontier |-> add_frontier(sx, sy, cells_w, cells_h, in0, <<>>),
                            carved |-> 0, passes |-> 0]

\* One pass of the loop.
FrontierPass ==
    /\ probe.phase = "frontier"
    /\ probe.frontier # <<>>
    /\ \E idx \in 0..(Len(probe.frontier) - 1), pick \in 0..3 :
          LET cell == probe.frontier[idx + 1]
              drawn == Len(tree_neighbors(cell[1], cell[2], probe.cells_w,
                                          probe.cells_h, probe.in_maze))
              passed(st) ==
                  probe' = [probe EXCEPT !.grid = st.grid, !.in_maze = st.in_maze,
                                         !.frontier = st.frontier,
                                         !.carved = st.carved,
                                         !.passes = probe.passes + 1]
          IN  /\ pick < Max(drawn, 1)
              /\ passed(frontier_step([grid |-> probe.grid, in_maze |-> probe.in_maze,
                                       frontier |-> probe.frontier,
                                       carved |-> probe.carved],
                                      idx, pick, probe.cells_w, probe.cells_h))
    /\ UNCHANGED <<game, rng, pc, ticks, input>>

\* The loop ends on an empty frontier.
FrontierEmpty ==
    /\ probe.phase = "frontier"
    /\ probe.frontier = <<>>
    /\ probe' = [probe EXCEPT !.phase = "tree"]
    /\ UNCHANGED <<game, rng, pc, ticks, input>>

NextTree ==
    \/ FrontierPass
    \/ FrontierEmpty

\* The loop is straight-line code: a pass that can be made is made.
SpecTree == InitTree /\ [][NextTree]_vars /\ WF_vars(NextTree)

\* C1: in every state reached from new_game by tick calls, pellets_left is the
\* number of Pellet and Power tiles in the grid.
C1_PelletsLeftCountsTiles ==
    Playing => game.pellets_left = Cardinality(PelletTiles(game))

\* A second level in which a pellet has been eaten: consumption and a level
\* transition both happened.
C1_Witness ==
    /\ Playing /\ game.level = 2
    /\ game.grid[game.player.y][game.player.x] = "Empty"
    /\ game.player # game.player_spawn

\* C9: in every reachable state the outer ring of the grid is Wall.
C9_BorderIsWall ==
    Playing => \A p \in BorderTiles(game) : game.grid[p.y][p.x] = "Wall"

\* A regenerated level in play.
C9_Witness == Playing /\ game.level = 2 /\ pc = "idle" /\ game.ghost_tick > 0

\* C7: the consumption step on a Power tile empties the tile, adds 50 to the
\* score, takes one off pellets_left and sets the power countdown to
\* POWER_TICKS whatever it was.
C7_PowerConsumption ==
    [][(pc = "consume_tile" /\ game.grid[game.player.y][game.player.x] = "Power")
       => /\ game'.grid = [game.grid EXCEPT ![game.player.y][game.player.x] = "Empty"]
          /\ game'.score = game.score + 50
          /\ game'.pellets_left = game.pellets_left - 1
          /\ game'.power_timer = POWER_TICKS]_vars

\* A Power tile was just eaten while the countdown of an earlier one (eaten
\* fewer than POWER_TICKS ticks before) was still running.
C7_Witness ==
    /\ pc = "try_collect_bonus" /\ game.level = 1
    /\ game.player \in CornerTiles(game)
    /\ game.power_timer = POWER_TICKS
    /\ Cardinality(EatenTiles(game) \cap CornerTiles(game)) >= 2
    /\ ticks < POWER_TICKS

\* C3: collision resolution with a ghost on the player's tile and a positive
\* power countdown adds 200 to the score and sends that ghost to its spawn;
\* nothing else of the game changes.
C3_PowerCollision ==
    [][(pc = "handle_collisions" /\ GhostsOnPlayer(game) # {} /\ game.power_timer > 0)
       => /\ \E h \in GhostsOnPlayer(game) :
                game' = [game EXCEPT !.score = game.score + 200,
                                     !.ghosts[h] = game.ghost_spawns[h]]
          /\ game'.lives = game.lives /\ game'.player = game.player
          /\ game'.ghost_release = game.ghost_release
          /\ game'.bonus_pos = game.bonus_pos
          /\ game'.bonus_timer = game.bonus_timer
          /\ game'.bonus_spawn_in = game.bonus_spawn_in]_vars

\* Level 1 after a tick whose score exceeds what the eaten tiles account for
\* by one ghost: a ghost was caught under power.
C3_Witness ==
    /\ pc = "idle" /\ game.level = 1 /\ game.lives = 3
    /\ game.score = ScoreOfTiles(game) + 200
    /\ game.power_timer > 0

\* C4: collision resolution with a ghost on the player's tile and the power
\* countdown at 0 takes one life (none at 0 lives), puts the player and the 4
\* ghosts on their spawns, sets release countdown i to
\* i * GHOST_RELEASE_INTERVAL, leaves the power countdown 0, clears the bonus
\* and draws a new respawn countdown; the score stays.
C4_LifeLoss ==
    [][(pc = "handle_collisions" /\ GhostsOnPlayer(game) # {} /\ game.power_timer = 0)
       => /\ game'.lives = (IF game.lives > 0 THEN game.lives - 1 ELSE 0)
          /\ game'.player = game.player_spawn
          /\ DOMAIN game'.ghosts = 0..3
          /\ \A i \in 0..3 : /\ game'.ghosts[i] = game.ghost_spawns[i]
                             /\ game'.ghost_release[i] = i * GHOST_RELEASE_INTERVAL
          /\ game'.power_timer = 0
          /\ game'.bonus_pos = None /\ game'.bonus_timer = 0
          /\ game'.bonus_spawn_in \in BONUS_MIN_TICKS..BONUS_MAX_TICKS
          /\ rng' # rng
          /\ game'.score = game.score]_vars

\* The fourth loss: a collision without power when no life was left.
C4_Witness ==
    /\ pc = "idle" /\ game.lives = 0 /\ game.level = 1
    /\ game.player = game.player_spawn
    /\ \A i \in 0..3 : game.ghosts[i] = game.ghost_spawns[i]
    /\ game.ghost_tick = 4 * 10

\* C10: the tick in which pellets_left reaches 0 regenerates the level: level
\* + 1, score and lives kept, power countdown 0, no committed direction,
\* AI-epoch counter 0, no bonus and a new respawn countdown, the ghosts on the
\* new spawns and release countdown i at i * GHOST_RELEASE_INTERVAL.
C10_NextLevel ==
    [][(pc = "level_check" /\ game.pellets_left = 0 /\ pc' # "panic")
       => /\ pc' = "idle"
          /\ game'.level = game.level + 1
          /\ game'.score = game.score /\ game'.lives = game.lives
          /\ game'.power_timer = 0
          /\ game'.dir = None
          /\ game'.ghost_tick = 0
          /\ game'.bonus_pos = None /\ game'.bonus_timer = 0
          /\ game'.bonus_spawn_in \in BONUS_MIN_TICKS..BONUS_MAX_TICKS
          /\ DOMAIN game'.ghosts = 0..3
          /\ \A i \in 0..3 : /\ game'.ghosts[i] = game'.ghost_spawns[i]
                             /\ game'.ghost_release[i] = i * GHOST_RELEASE_INTERVAL]_vars

\* The state the regenerating tick ends in, reached with power still running
\* and the counter of AI epochs past 0 in the level left.
C10_Witness ==
    /\ pc = "idle" /\ game.level = 2 /\ game.ghost_tick = 0
    /\ game.score > 0 /\ game.power_timer = 0

\* The path field update_ghosts computes in the state g.
PathField(g) == bfs_distance(g.grid, g.width, g.height, g.player, TRUE)

\* C5: on an AI epoch a chasing ghost with a legal neighbour of finite field
\* distance moves to a tile whose field distance is at most that of the tile
\* it left, also when it stands on the player's tile.
C5_ChaseNeverRecedes ==
    [][(pc = "update_ghosts" /\ (game.ghost_tick + 1) % GHOST_MOVE_INTERVAL = 0)
       => \A i \in DOMAIN game.ghosts :
             (/\ game.ghost_release[i] = 0
              /\ \E d \in Dir :
                    /\ can_move_ghost(game.grid, game.width, game.height,
                                      game.ghosts[i], d, TRUE)
                    /\ PathField(game)[step(game.ghosts[i], d).y]
                                      [step(game.ghosts[i], d).x] >= 0)
             => PathField(game)[game'.ghosts[i].y][game'.ghosts[i].x]
                    <= PathField(game)[game.ghosts[i].y][game.ghosts[i].x]]_vars

\* C6 as stated: within one level no release countdown ever increases.
C6_NeverIncreases ==
    [][(Playing /\ pc' # "panic" /\ game'.level = game.level)
       => \A i \in DOMAIN game.ghost_release :
             game'.ghost_release[i] <= game.ghost_release[i]]_vars

\* C6, amended: within one level no release countdown increases (so one at 0
\* stays 0), except in the collision resolution that costs a life, which
\* sets countdown i to i * GHOST_RELEASE_INTERVAL.
C6_IncreasesOnlyOnLifeLoss ==
    [][(Playing /\ pc' # "panic" /\ game'.level = game.level)
       => \A i \in DOMAIN game.ghost_release :
             \/ game'.ghost_release[i] <= game.ghost_release[i]
             \/ /\ pc = "handle_collisions"
                /\ GhostsOnPlayer(game) # {}
                /\ game.power_timer = 0
                /\ game'.ghost_release[i] = i * GHOST_RELEASE_INTERVAL]_vars

\* After a life was lost the countdown of ghost 1, set back to
\* GHOST_RELEASE_INTERVAL, has gone down again; that of ghost 0 is still 0.
C6_Witness ==
    /\ pc = "idle" /\ game.level = 1 /\ game.lives < 3
    /\ game.ghost_release[0] = 0
    /\ game.ghost_release[1] < GHOST_RELEASE_INTERVAL

\* The tiles the player can stand on outside the pen bounds.
OpenTiles(m) ==
    {p \in Tiles(m) : /\ m.grid[p.y][p.x] \notin {"Wall", "Gate"}
                      /\ ~is_in_pen_bounds(p, m.pen_bounds)}

\* The tiles of W joined to a tile of S by 4-neighbour steps inside W.
RECURSIVE Joined(_, _)
Joined(W, S) ==
    LET more == {p \in W \ S : \E q \in S : (p.x - q.x) * (p.x - q.x)
                                             + (p.y - q.y) * (p.y - q.y) = 1}
    IN  IF more = {} THEN S ELSE Joined(W, S \cup more)

\* C2: in the grid generate_maze returns, every tile the player can stand on
\* outside the pen bounds is reachable from every other one by steps over such
\* tiles.
C2_Connected ==
    probe.phase = "generated"
        => \A a \in OpenTiles(probe) : Joined(OpenTiles(probe), {a}) = OpenTiles(probe)

\* Whether the tile n can be stepped on by a ghost.
Passable(grid, width, height, n, gate_open) ==
    /\ n.x \in 0..(width - 1) /\ n.y \in 0..(height - 1)
    /\ grid[n.y][n.x] # "Wall"
    /\ grid[n.y][n.x] = "Gate" => gate_open

\* The least number of ghost-passable steps from the source of q to every
\* tile, -1 where there is no path: the tiles first reached in step k + 1 are
\* the passable neighbours, not reached before, of those first reached in
\* step k.
RECURSIVE MinSteps(_, _, _, _)
MinSteps(q, table, reached, k) ==
    LET more == {n \in UNION {Neighbors4(r) : r \in reached} :
                    /\ Passable(q.grid, q.width, q.height, n, q.gate_open)
                    /\ table[n] = -1}
    IN  IF more = {} THEN table
        ELSE MinSteps(q, [p \in DOMAIN table |-> IF p \in more THEN k + 1 ELSE table[p]],
                      more, k + 1)

MinStepsFrom(q) ==
    MinSteps(q, [p \in BfsTiles |-> IF p = q.start THEN 0 ELSE -1], {q.start}, 0)

\* C8: bfs_distance gives 0 to the source, the least number of ghost-passable
\* steps to every tile reachable from it, -1 to every other tile, and the
\* same table when computed again.
C8_BfsIsMinimal ==
    /\ probe.phase \in {"distances", "repeated"}
          => LET least == MinStepsFrom(probe)
             IN  \A p \in BfsTiles : probe.dist[p.y][p.x] = least[p]
    /\ probe.phase = "repeated" => probe.again = probe.dist

\* A table computed twice with the gate closed, holding a tile behind a
\* detour and a Gate that stops the search.
C8_Witness ==
    /\ probe.phase = "repeated" /\ ~probe.gate_open
    /\ probe.dist[probe.start.y][probe.start.x] = 0
    /\ \E p \in BfsTiles :
          probe.dist[p.y][p.x] >= 4
          /\ (p.x - probe.start.x) * (p.x - probe.start.x)
             + (p.y - probe.start.y) * (p.y - probe.start.y) <= 4
    /\ \E p \in BfsTiles : probe.grid[p.y][p.x] = "Gate" /\ probe.dist[p.y][p.x] = -1

\* C11: a tick whose consumption step brought pellets_left to 0 ends with the
\* regeneration of the level: world advance and collision resolution do not
\* run, so lives keep their value also with a ghost on the player's tile, no
\* ghost takes a move from its new spawn and the new countdowns are not advanced.
C11_LevelEndSkipsWorld ==
    [][(pc = "level_check" /\ game.pellets_left = 0)
       => /\ pc' \in {"idle", "panic"}
          /\ pc' = "idle"
             => /\ game'.lives = game.lives
                /\ game'.ghosts = game'.ghost_spawns
                /\ game'.ghost_tick = 0
                /\ game'.ghost_release = release_schedule(game'.ghost_spawns)
                /\ game'.power_timer = 0
                /\ game'.bonus_pos = None /\ game'.bonus_timer = 0
                /\ game'.bonus_spawn_in \in BONUS_MIN_TICKS..BONUS_MAX_TICKS]_vars

\* The last pellet was eaten on a tile where a ghost stands while the power
\* countdown is 0: collision resolution would cost a life.
C11_Witness ==
    /\ pc = "level_check" /\ game.pellets_left = 0
    /\ GhostsOnPlayer(game) # {}
    /\ game.power_timer = 0 /\ game.lives > 0

\* C12: no step of a tick raises the power countdown except the consumption of
\* a Power tile and the pickup of the bonus; a tick that reaches world advance
\* lowers a positive countdown by exactly 1 in tick_power_timer, on AI epochs
\* and between them, and its other steps from update_bonus on leave it alone.
C12_PowerCountdown ==
    [][(Playing /\ pc' # "panic")
       => /\ game'.power_timer > game.power_timer
             => \/ /\ pc = "consume_tile"
                   /\ game.grid[game.player.y][game.player.x] = "Power"
                \/ /\ pc = "try_collect_bonus"
                   /\ game.bonus_pos = Some(game.player)
          /\ pc = "tick_power_timer"
             => game'.power_timer = IF game.power_timer > 0
                                    THEN game.power_timer - 1 ELSE 0
          /\ (\/ pc = "level_check" /\ game.pellets_left # 0
              \/ pc \in {"update_ghosts", "handle_collisions"})
             => game'.power_timer = game.power_timer]_vars

\* Between two AI epochs, a countdown that the bonus raised has been lowered by 1.
C12_Witness ==
    /\ pc = "handle_collisions"
    /\ game.ghost_tick % GHOST_MOVE_INTERVAL # 0
    /\ game.bonus_pos = None
    /\ game.power_timer = (POWER_TICKS \div 2) + BONUS_POWER_BOOST - 1

\* C13: update_bonus with no bonus on the grid and a positive respawn countdown
\* lowers that countdown by 1 and changes no other field of the game.
C13_IdleBonusAdvance ==
    [][(pc = "level_check" /\ game.pellets_left # 0
        /\ game.bonus_pos = None /\ game.bonus_spawn_in > 0)
       => game' = [game EXCEPT !.bonus_spawn_in = game.bonus_spawn_in - 1]]_vars

\* The respawn countdown has just been lowered from 1 to 0.
C13_Witness ==
    /\ pc = "update_ghosts"
    /\ game.bonus_pos = None /\ game.bonus_spawn_in = 0

\* C14: try_collect_bonus with the player on the bonus tile removes the bonus,
\* adds BONUS_SCORE to the score, draws a respawn countdown in
\* BONUS_MIN_TICKS..BONUS_MAX_TICKS and raises the power countdown to at
\* least BONUS_POWER_BOOST without ever lowering it.
C14_BonusPickup ==
    [][(pc = "try_collect_bonus" /\ game.bonus_pos = Some(game.player))
       => /\ game'.bonus_pos = None
          /\ game'.score = game.score + BONUS_SCORE
          /\ game'.bonus_spawn_in = gen_range(rng, BONUS_MIN_TICKS, BONUS_MAX_TICKS)
          /\ game'.bonus_spawn_in \in BONUS_MIN_TICKS..BONUS_MAX_TICKS
          /\ rng' = RngNext(rng)
          /\ game'.power_timer >= game.power_timer
          /\ game'.power_timer >= BONUS_POWER_BOOST]_vars

\* The bonus was picked up while the power countdown was running.
C14_Witness ==
    /\ pc = "level_check"
    /\ game.bonus_pos = None
    /\ game.power_timer = (POWER_TICKS \div 2) + BONUS_POWER_BOOST

\* C18: with several ghosts on the player's tile and a positive power
\* countdown, handle_collisions adds 200 to the score once and sends only the
\* ghost of lowest index to its spawn; the other ghosts keep their positions.
C18_FirstGhostOnly ==
    [][(pc = "handle_collisions"
        /\ Cardinality(GhostsOnPlayer(game)) >= 2 /\ game.power_timer > 0)
       => /\ game'.score = game.score + 200
          /\ \A i \in DOMAIN game.ghosts :
                game'.ghosts[i] =
                    IF \A j \in GhostsOnPlayer(game) : i <= j
                    THEN game.ghost_spawns[i] ELSE game.ghosts[i]]_vars

\* After the resolution ghost 0 is back on its spawn and ghost 1 still stands
\* on the player's tile.
C18_Witness ==
    /\ pc = "idle" /\ ticks > MaxTicks - MidTicks
    /\ game.ghosts[0] = game.ghost_spawns[0]
    /\ game.ghosts[1] = game.player
    /\ game.power_timer > 0

\* C19: in every state a ghost whose release countdown is positive stands
\* strictly inside the pen: not on the Gate, not on the pen's wall ring and
\* not outside the pen.
C19_CagedInPen ==
    Playing => \A i \in DOMAIN game.ghosts :
                  game.ghost_release[i] > 0
                  => in_pen_interior(game.ghosts[i], game.pen_bounds)

\* A caged ghost has moved to the tile under the Gate and taken a further
\* turn there.
C19_Witness ==
    /\ pc = "tick_power_timer" /\ game.ghost_tick >= 4
    /\ \E i \in DOMAIN game.ghosts :
          /\ game.ghost_release[i] > 0
          /\ game.grid[game.ghosts[i].y - 1][game.ghosts[i].x] = "Gate"

\* C20: update_ghosts changes ghost positions and release countdowns only when
\* the AI-epoch counter after its increment is a multiple of
\* GHOST_MOVE_INTERVAL, and then moves each ghost by at most one tile.
C20_GhostsActOnEpochs ==
    [][pc = "update_ghosts"
       => /\ game'.ghost_tick = game.ghost_tick + 1
          /\ game'.ghost_tick % GHOST_MOVE_INTERVAL # 0
             => /\ game'.ghosts = game.ghosts
                /\ game'.ghost_release = game.ghost_release
          /\ \A i \in DOMAIN game.ghosts :
                \/ game'.ghosts[i] = game.ghosts[i]
                \/ \E d \in Dir : game'.ghosts[i] = step(game.ghosts[i], d)]_vars

\* World advance between two epochs has left in place a ghost that walked on
\* the epoch before.
C20_Witness ==
    /\ pc = "tick_power_timer"
    /\ game.ghost_tick = 3
    /\ game.ghosts[0] # game.ghost_spawns[0]

\* Whether a width x height grid is too small for the pen, a border and a tile
\* outside the pen: no room for a 3 x 3 pen inside the border, or every tile
\* inside the border lies within the pen bounds.
TooSmall(width, height) ==
    \/ width < 5 \/ height < 5
    \/ \A x \in 1..(width - 2), y \in 1..(height - 2) :
          is_in_pen(Pos(x, y), width, height)

\* C15: new_game aborts for dimensions too small to hold the pen, the border
\* and a walkable tile outside the pen, and a Game it returns has its player on
\* a tile that is no Wall, no Gate and not inside the pen bounds.
C15_NewGameAbortsOrPlaces ==
    probe.phase = "constructed"
        => /\ TooSmall(probe.width, probe.height) => probe.panicked
           /\ ~probe.panicked
              => /\ game.grid[game.player.y][game.player.x] \notin {"Wall", "Gate"}
                 /\ ~is_in_pen_bounds(game.player, game.pen_bounds)

\* The tiles a bonus can be placed on: Empty, outside the pen, free of the
\* player and of ghosts.
FreeTiles(g) ==
    {p \in EatenTiles(g) : p # g.player /\ \A i \in DOMAIN g.ghosts : g.ghosts[i] # p}

C21_FourGhosts ==
    Playing
    => /\ DOMAIN game.ghosts = 0..3
       /\ DOMAIN game.ghost_spawns = 0..3
       /\ DOMAIN game.ghost_release = 0..3
       /\ \A i \in 0..3 :
             /\ in_pen_interior(game.ghost_spawns[i], game.pen_bounds)
             /\ game.ghosts[i] \in Tiles(game)
             /\ game.grid[game.ghosts[i].y][game.ghosts[i].x] # "Wall"

\* A released ghost has left the pen and walks the maze with a wall beside it.
C21_Witness ==
    /\ pc = "tick_power_timer"
    /\ \E i \in 0..3 :
          /\ ~is_in_pen_bounds(game.ghosts[i], game.pen_bounds)
          /\ \E d \in Dir :
                ~can_move_ghost(game.grid, game.width, game.height,
                                game.ghosts[i], d, TRUE)

\* C22: apply_input with input_active false leaves no committed direction and
\* the player of that tick does not move; move_player moves the player by at
\* most one tile and only onto a tile that is neither Wall nor Gate; a
\* committed direction that is illegal is cleared and the player stays.
C22_InputAndMove ==
    [][/\ pc = "idle"
          => /\ game'.player = game.player
             /\ \A d \in DirOpt :
                   /\ apply_input(game, d, FALSE).dir = None
                   /\ move_player(apply_input(game, d, FALSE)).player = game.player
             /\ \E d \in DirOpt, a \in BOOLEAN :
                   /\ game' = apply_input(game, d, a)
                   /\ ~a => game'.dir = None
       /\ pc = "move_player"
          => /\ game.dir = None => game' = game
             /\ game.dir # None
                => IF can_move_player(game.grid, game.width, game.height,
                                      game.player, game.dir[1])
                   THEN /\ game'.player = step(game.player, game.dir[1])
                        /\ game.grid[game'.player.y][game'.player.x]
                              \notin {"Wall", "Gate"}
                   ELSE /\ game'.player = game.player
                        /\ game'.dir = None]_vars

\* move_player is about to run with a committed direction that a wall blocks.
C22_Witness ==
    /\ pc = "move_player"
    /\ game.dir # None
    /\ ~can_move_player(game.grid, game.width, game.height, game.player, game.dir[1])

\* C23: in every state the player stands inside the grid, on a tile that is
\* neither Wall nor Gate, outside the pen's bounds; so does the player spawn.
C23_PlayerOutsidePen ==
    Playing
    => \A p \in {game.player, game.player_spawn} :
          /\ p \in Tiles(game)
          /\ game.grid[p.y][p.x] \notin {"Wall", "Gate"}
          /\ ~is_in_pen_bounds(p, game.pen_bounds)

\* The player stands on the tile above the Gate after a tick in which the
\* player did not leave it.
C23_Witness ==
    /\ pc = "consume_tile" /\ ticks >= 2
    /\ game.grid[game.player.y + 1][game.player.x] = "Gate"

\* C24: in the grid generate_maze returns, the tile directly above the Gate is
\* not Wall, and with the gate open the path field from every ghost spawn is
\* finite on every tile the player can stand on outside the pen.
C24_GateCorridor ==
    probe.phase = "generated"
        => /\ probe.grid[probe.pen_bounds.y0 - 1]
                        [(probe.pen_bounds.x0 + probe.pen_bounds.x1) \div 2] # "Wall"
           /\ \A i \in DOMAIN probe.ghost_spawns :
                 LET finite(dist) == \A p \in OpenTiles(probe) : dist[p.y][p.x] # -1
                 IN  finite(bfs_distance(probe.grid, probe.width, probe.height,
                                         probe.ghost_spawns[i], TRUE))

\* C25: in every state exactly one tile is Gate, the centre tile of the pen's
\* top edge, and every other tile of the pen's ring is Wall: the repair, the
\* pellet placement and the ticks leave the ring and the Gate as carved.
C25_OneGate ==
    Playing
    => LET b == game.pen_bounds
           door == Pos((b.x0 + b.x1) \div 2, b.y0)
       IN  /\ {p \in Tiles(game) : game.grid[p.y][p.x] = "Gate"} = {door}
           /\ \A p \in Tiles(game) :
                 (is_pen_wall(p, b) /\ p # door) => game.grid[p.y][p.x] = "Wall"

\* A ghost stands on the Gate of a level whose tile above the Gate has been
\* eaten.
C25_Witness ==
    /\ pc = "tick_power_timer"
    /\ \E i \in DOMAIN game.ghosts :
          /\ game.grid[game.ghosts[i].y][game.ghosts[i].x] = "Gate"
          /\ game.grid[game.ghosts[i].y - 1][game.ghosts[i].x] = "Empty"

\* C26 as stated: in the grid generate_maze returns, every tile outside the
\* pen bounds that is not Wall is Pellet or Power, the Power tiles are exactly
\* the four inner corner tiles, and no tile strictly inside the pen is Pellet
\* or Power.
C26_FourPowerCorners ==
    probe.phase = "generated"
        => /\ \A p \in Tiles(probe) :
                 /\ (~is_in_pen_bounds(p, probe.pen_bounds)
                     /\ probe.grid[p.y][p.x] # "Wall")
                    => probe.grid[p.y][p.x] \in {"Pellet", "Power"}
                 /\ in_pen_interior(p, probe.pen_bounds)
                    => probe.grid[p.y][p.x] \notin {"Pellet", "Power"}
           /\ {p \in Tiles(probe) : probe.grid[p.y][p.x] = "Power"} = CornerTiles(probe)

\* C26: the same, with the Power tiles being exactly the inner corner tiles
\* that the pen's ring does not cover.
C26_PowerOnOpenCorners ==
    probe.phase = "generated"
        => /\ \A p \in Tiles(probe) :
                 /\ (~is_in_pen_bounds(p, probe.pen_bounds)
                     /\ probe.grid[p.y][p.x] # "Wall")
                    => probe.grid[p.y][p.x] \in {"Pellet", "Power"}
                 /\ in_pen_interior(p, probe.pen_bounds)
                    => probe.grid[p.y][p.x] \notin {"Pellet", "Power"}
           /\ {p \in Tiles(probe) : probe.grid[p.y][p.x] = "Power"}
                 = {p \in CornerTiles(probe) : ~is_in_pen_bounds(p, probe.pen_bounds)}

\* A grid returned with four Power corners, pellets beside them and a pen
\* that leaves tiles outside it on all four sides.
C26_Witness ==
    /\ probe.phase = "generated"
    /\ Cardinality({p \in Tiles(probe) : probe.grid[p.y][p.x] = "Power"}) = 4
    /\ probe.pen_bounds.x0 > 1 /\ probe.pen_bounds.y0 > 1
    /\ probe.pellets > 4

\* C27: a bonus becomes active only in an update_bonus call that starts with
\* no bonus and a respawn countdown of 0; its tile is then Empty, outside the
\* pen bounds, not the player's and not a ghost's, and its lifetime countdown
\* is BONUS_LIFETIME_TICKS. With no such tile the bonus stays absent. Either
\* way that call draws a respawn countdown from BONUS_MIN_TICKS to
\* BONUS_MAX_TICKS, so the rest of the tick makes no second attempt.
C27_BonusSpawn ==
    [][Playing
       => /\ (game.bonus_pos = None /\ game'.bonus_pos # None)
             => /\ pc = "level_check" /\ game.pellets_left # 0
                /\ game.bonus_spawn_in = 0
                /\ game'.bonus_pos[1] \in FreeTiles(game)
                /\ game'.bonus_timer = BONUS_LIFETIME_TICKS
          /\ (/\ pc = "level_check" /\ game.pellets_left # 0
              /\ game.bonus_pos = None /\ game.bonus_spawn_in = 0)
             => /\ FreeTiles(game) = {} => game'.bonus_pos = None
                /\ game'.bonus_spawn_in \in BONUS_MIN_TICKS..BONUS_MAX_TICKS
                /\ rng' # rng]_vars

\* update_bonus has just placed a bonus: its lifetime countdown is still whole.
C27_Witness ==
    /\ pc = "update_ghosts"
    /\ game.bonus_pos # None
    /\ game.bonus_timer = BONUS_LIFETIME_TICKS
    /\ game.bonus_spawn_in >= BONUS_MIN_TICKS

\* The number of update_bonus calls an active bonus can still see, the one
\* that removes it included; 0 when no bonus is active.
BonusStepsLeft(g) == IF g.bonus_pos = None THEN 0 ELSE g.bonus_timer + 1

\* C28: an active bonus has at most BONUS_LIFETIME_TICKS + 1 update_bonus
\* calls left; every update_bonus call takes one of them, the last one removing
\* the bonus and drawing a respawn countdown; no other step moves the bonus or
\* adds to its lifetime, it can only remove the bonus (collection, life loss,
\* new level). So a bonus is gone within BONUS_LIFETIME_TICKS + 1 world-advance
\* steps of its spawning.
C28_BonusExpires ==
    [][(Playing /\ game.bonus_pos # None)
       => /\ BonusStepsLeft(game) <= BONUS_LIFETIME_TICKS + 1
          /\ BonusStepsLeft(game') <= BonusStepsLeft(game)
          /\ game'.bonus_pos \in {None, game.bonus_pos}
          /\ (pc = "level_check" /\ game.pellets_left # 0)
             => /\ BonusStepsLeft(game') = BonusStepsLeft(game) - 1
                /\ game.bonus_timer = 0
                   => /\ game'.bonus_pos = None
                      /\ game'.bonus_spawn_in \in BONUS_MIN_TICKS..BONUS_MAX_TICKS
                      /\ rng' # rng]_vars

\* update_bonus has removed a bonus nobody collected: no pickup raised the
\* power countdown, and a tile was free, so no placement has just failed.
C28_Witness ==
    /\ pc = "update_ghosts" /\ ticks = MaxTicks - MidTicks + 1
    /\ game.bonus_pos = None
    /\ game.bonus_spawn_in >= BONUS_MIN_TICKS
    /\ game.power_timer = 0
    /\ FreeTiles(game) # {}

\* C29: whenever update_ghosts is about to run, the same random draws give
\* every ghost the same next position (and leave the same release countdowns
\* and the same random state) in the state at hand and in the states that
\* differ from it in the power countdown only: the positions a ghost can be
\* given do not depend on the power countdown.
C29_PowerBlindGhosts ==
    pc = "update_ghosts"
    => LET agree(a, b) == /\ a.game.ghosts = b.game.ghosts
                          /\ a.game.ghost_release = b.game.ghost_release
                          /\ a.rng = b.rng
           blind(b) == \A pw \in {0, POWER_TICKS} :
                          agree(update_ghosts([game EXCEPT !.power_timer = pw], rng), b)
       IN  blind(update_ghosts(game, rng))

\* An AI epoch is about to move a released ghost outside the pen while the
\* power countdown runs.
C29_Witness ==
    /\ pc = "update_ghosts"
    /\ (game.ghost_tick + 1) % GHOST_MOVE_INTERVAL = 0
    /\ game.power_timer > 0 /\ game.power_timer < POWER_TICKS
    /\ game.ghost_release[0] = 0
    /\ ~is_in_pen_bounds(game.ghosts[0], game.pen_bounds)

\* C30: once the keys are released for good, on every AI epoch every chasing
\* ghost moves to a tile whose path-field distance to the player is one less
\* than that of the tile it left; a life is lost only to a ghost found on the
\* player's tile, and lives reaches 0 before RunTicks ticks have been taken;
\* with lives at 0 no further tick is taken.
C30_IdleRunEnds ==
    [][/\ (/\ pc = "update_ghosts" /\ input.plan = "stay"
           /\ (game.ghost_tick + 1) % GHOST_MOVE_INTERVAL = 0)
          => \A i \in DOMAIN game.ghosts :
                game.ghost_release[i] = 0
                => PathField(game)[game'.ghosts[i].y][game'.ghosts[i].x]
                      = PathField(game)[game.ghosts[i].y][game.ghosts[i].x] - 1
       /\ (Playing /\ game'.lives < game.lives)
          => pc = "handle_collisions" /\ GhostsOnPlayer(game) # {}
       /\ (pc' = "idle" /\ game'.lives # 0) => ticks' < RunTicks
       /\ ~(pc = "idle" /\ game.lives = 0)]_vars

\* The release countdowns are those of the staggered schedule after some
\* number of AI epochs: ghost i holds i * GHOST_RELEASE_INTERVAL less that
\* number, or 0 once that many epochs have passed.
Staggered(g) ==
    \E e \in 0..(3 * GHOST_RELEASE_INTERVAL) :
        \A i \in DOMAIN g.ghosts :
            g.ghost_release[i] = saturating_sub(i * GHOST_RELEASE_INTERVAL, e)

\* C31: the countdowns start from i * GHOST_RELEASE_INTERVAL at a level start
\* and when the player is caught and change nowhere else but on an AI epoch, where
\* each positive one falls by exactly 1; so they stay staggered, ghost 0 is
\* released from the start and the ghosts are released in index order. On an
\* epoch a ghost whose countdown is positive stays strictly inside the pen,
\* and a released ghost that is not on the player's tile steps one tile down
\* the path field.
C31_StaggeredRelease ==
    [][/\ (Playing /\ Playing') => (Staggered(game) /\ Staggered(game'))
       /\ (pc = "update_ghosts" /\ (game.ghost_tick + 1) % GHOST_MOVE_INTERVAL = 0)
          => \A i \in DOMAIN game.ghosts :
                /\ game'.ghost_release[i] = saturating_sub(game.ghost_release[i], 1)
                /\ game.ghost_release[i] > 0
                   => in_pen_interior(game'.ghosts[i], game.pen_bounds)
                /\ (game.ghost_release[i] = 0 /\ game.ghosts[i] # game.player)
                   => PathField(game)[game'.ghosts[i].y][game'.ghosts[i].x]
                         = PathField(game)[game.ghosts[i].y][game.ghosts[i].x] - 1
       /\ (pc = "update_ghosts" /\ (game.ghost_tick + 1) % GHOST_MOVE_INTERVAL # 0)
          => game'.ghost_release = game.ghost_release
       /\ (Playing /\ Playing' /\ pc # "update_ghosts")
          => \/ game'.ghost_release = game.ghost_release
             \/ /\ game'.ghost_release = release_schedule(game'.ghost_spawns)
                /\ \/ game'.level = game.level + 1
                   \/ /\ pc = "handle_collisions" /\ game.power_timer = 0
                      /\ GhostsOnPlayer(game) # {}]_vars

\* Ghost 1 has counted its GHOST_RELEASE_INTERVAL epochs down in play and
\* walked out of the pen, while ghost 2 is still caged.
C31_Witness ==
    /\ pc = "idle" /\ game.level = 1
    /\ game.ghost_release[1] = 0
    /\ ~is_in_pen_bounds(game.ghosts[1], game.pen_bounds)
    /\ game.ghost_release[2] > 0
    /\ in_pen_interior(game.ghosts[2], game.pen_bounds)

\* The tiles of the half-resolution cells of the loop's grid, and the tiles
\* of that grid that are not Wall.
TreeCellTiles ==
    {Pos(2 * cx + 1, 2 * cy + 1) : cx \in 0..(probe.cells_w - 1),
                                   cy \in 0..(probe.cells_h - 1)}

TreeOpenTiles ==
    {p \in {Pos(x, y) : x \in 0..(2 * probe.cells_w), y \in 0..(2 * probe.cells_h)} :
        probe.grid[p.y][p.x] # "Wall"}

\* Every cell is in the tree and open, the other open tiles are exactly
\* cells_w * cells_h - 1 walls, each between two neighbouring cells, and the
\* open tiles hang together: the cells form a tree.
PerfectTree ==
    /\ probe.in_maze = {<<cx, cy>> : cx \in 0..(probe.cells_w - 1),
                                     cy \in 0..(probe.cells_h - 1)}
    /\ probe.carved = probe.cells_w * probe.cells_h - 1
    /\ TreeCellTiles \subseteq TreeOpenTiles
    /\ \A p \in TreeOpenTiles \ TreeCellTiles :
          /\ (p.x + p.y) % 2 = 1
          /\ p.x \in 1..(2 * probe.cells_w - 1) /\ p.y \in 1..(2 * probe.cells_h - 1)
    /\ Cardinality(TreeOpenTiles \ TreeCellTiles) = probe.cells_w * probe.cells_h - 1
    /\ Joined(TreeOpenTiles, {Pos(1, 1)}) = TreeOpenTiles

\* C32: under every outcome of the draws the frontier loop comes to its end,
\* and then the carved cells form a perfect maze: every cell in the tree,
\* cells_w * cells_h - 1 connecting walls open, connected and without a cycle.
\* A pass that draws a cell already in the tree removes that one frontier
\* entry and carves nothing; any other pass adds one cell and one wall.
C32_FrontierLoop ==
    /\ <>(probe.phase = "tree")
    /\ [](probe.phase = "tree" => PerfectTree)
    /\ [][probe'.phase = "frontier"
          => \/ /\ probe'.in_maze = probe.in_maze
                /\ probe'.grid = probe.grid /\ probe'.carved = probe.carved
                /\ Len(probe'.frontier) = Len(probe.frontier) - 1
             \/ /\ Cardinality(probe'.in_maze) = Cardinality(probe.in_maze) + 1
                /\ probe'.carved = probe.carved + 1]_vars

\* The loop has ended on the largest grid after discarding a stale entry:
\* more passes were made than walls carved.
C32_Witness ==
    /\ probe.phase = "tree"
    /\ probe.cells_w = TreeW /\ probe.cells_h = TreeH
    /\ probe.passes > probe.carved

\* The power countdown that a tick started in the state start, whose move has
\* brought the player to the tile p, has when it resolves collisions: the
\* start's countdown, replaced by POWER_TICKS if p held a Power tile, raised
\* by BONUS_POWER_BOOST if the bonus lay on p, and then lowered by one.
PowerAtCollision(start, p) ==
    LET consumed == IF start.grid[p.y][p.x] = "Power" THEN POWER_TICKS
                    ELSE start.power_timer
        collected == IF start.bonus_pos = Some(p) THEN consumed + BONUS_POWER_BOOST
                     ELSE consumed
    IN  saturating_sub(collected, 1)

\* C33: when handle_collisions finds a ghost on the player's tile, the power
\* countdown is the one the tick started with after this tick's consumption,
\* bonus pickup and decrement, and it decides the outcome: positive, the
\* first such ghost is eaten and the player stays; 0, the player is caught.
\* So a collision on the tick in which the player ate a Power tile ends with
\* the ghost eaten, and one on a tick that started with the countdown at 1 and
\* took neither a Power tile nor the bonus ends with the player caught.
C33_CollisionAfterCountdown ==
    [][(pc = "handle_collisions" /\ GhostsOnPlayer(game) # {})
       => LET start == probe.game
              power == PowerAtCollision(start, game.player)
              eaten == /\ game'.lives = game.lives /\ game'.player = game.player
                       /\ game'.score = game.score + 200
                       /\ \E i \in GhostsOnPlayer(game) :
                             game'.ghosts[i] = game.ghost_spawns[i]
              caught == /\ game'.lives = game.lives - 1
                        /\ game'.player = game.player_spawn
                        /\ game'.ghosts = game.ghost_spawns
                        /\ game'.score = game.score
          IN  /\ game.power_timer = power
              /\ power > 0 => eaten
              /\ power = 0 => caught
              /\ start.grid[game.player.y][game.player.x] = "Power" => eaten
              /\ (/\ start.power_timer = 1
                  /\ start.grid[game.player.y][game.player.x] # "Power"
                  /\ start.bonus_pos # Some(game.player)) => caught]_vars

\* A tick has ended in which the player stepped onto a Power tile with the
\* countdown at 0 and met a ghost there: the tile and the ghost were eaten
\* and no life was lost.
C33_Witness ==
    /\ pc = "idle" /\ probe.phase = "tick"
    /\ probe.game.power_timer = 0
    /\ probe.game.player # game.player
    /\ probe.game.grid[game.player.y][game.player.x] = "Power"
    /\ game.score = probe.game.score + 50 + 200
    /\ game.lives = probe.game.lives
    /\ game.power_timer = POWER_TICKS - 1

\* C34: in a tick whose move has brought the player onto the tile on which
\* ghost i stood when the tick was called, the level is not regenerated
\* before collisions are resolved, and handle_collisions finds ghost i on the
\* player's tile and resolves the collision for it: the ghost is sent to its
\* spawn for 200 points while the power countdown runs, and the player is
\* caught otherwise.
C34_NoPassThrough ==
    [][(/\ probe.phase = "tick" /\ probe.game.player # game.player
        /\ pc \in {"level_check", "handle_collisions"})
       => \A i \in DOMAIN game.ghosts :
             probe.game.ghosts[i] = game.player
             => /\ pc = "level_check" => game.pellets_left # 0
                /\ pc = "handle_collisions"
                   => /\ game.ghosts[i] = game.player
                      /\ game.power_timer > 0
                         => /\ game'.ghosts[i] = game.ghost_spawns[i]
                            /\ game'.score = game.score + 200
                      /\ game.power_timer = 0
                         => /\ game'.lives = game.lives - 1
                            /\ game'.player = game.player_spawn]_vars

\* C35: between two ticks a ghost stands on the player's tile only while the
\* power countdown is positive.
C35_NoGhostOnPlayerUnpowered ==
    (pc = "idle" /\ GhostsOnPlayer(game) # {}) => game.power_timer > 0

\* A tick has ended with a ghost left on the player's tile: the player stepped
\* onto two ghosts under power and only the first was sent home.
C35_Witness ==
    /\ pc = "idle" /\ ticks > 0
    /\ GhostsOnPlayer(game) # {}
    /\ game.power_timer > 0
    /\ game.ghosts[0] = game.ghost_spawns[0]

\* C36: try_collect_bonus with the player on the bonus tile leaves the power
\* countdown at exactly its value before plus BONUS_POWER_BOOST; applied after
\* consume_tile to the state with a Power tile and the bonus under the player
\* the two calls leave POWER_TICKS + BONUS_POWER_BOOST (in play that state does
\* not arise, by the last part). In every state the lifetime countdown is 0
\* while no bonus is active, and the tile of an active bonus is Empty and
\* outside the pen bounds.
C36_BonusBoostAndTile ==
    [][Playing
       => /\ (pc = "try_collect_bonus" /\ game.bonus_pos = Some(game.player))
             => game'.power_timer = game.power_timer + BONUS_POWER_BOOST
          /\ pc = "consume_tile"
             => LET both == [game EXCEPT
                                !.grid[game.player.y][game.player.x] = "Power",
                                !.bonus_pos = Some(game.player)]
                IN  try_collect_bonus(consume_tile(both), rng).game.power_timer
                       = POWER_TICKS + BONUS_POWER_BOOST
          /\ game.bonus_pos = None => game.bonus_timer = 0
          /\ game.bonus_pos # None
             => /\ game.grid[game.bonus_pos[1].y][game.bonus_pos[1].x] = "Empty"
                /\ ~is_in_pen_bounds(game.bonus_pos[1], game.pen_bounds)
                /\ ~is_in_pen(game.bonus_pos[1], game.width, game.height)
          /\ game'.bonus_pos = None => game'.bonus_timer = 0
          /\ game'.bonus_pos # None
             => /\ game'.grid[game'.bonus_pos[1].y][game'.bonus_pos[1].x] = "Empty"
                /\ ~is_in_pen_bounds(game'.bonus_pos[1], game'.pen_bounds)]_vars

\* The bonus was picked up in the last tick of a power countdown, whose
\* lifetime countdown was still running.
C36_Witness ==
    /\ pc = "level_check"
    /\ game.bonus_pos = None /\ game.bonus_timer = 0
    /\ game.power_timer = 1 + BONUS_POWER_BOOST
    /\ game.score >= BONUS_SCORE
====
